---- MODULE Spec2Model ----
(***************************************************************************)
(* Model of the marketing-agent workflow coordinator                       *)
(* (core/coordinator.py), the session store it mirrors its progress into   *)
(* (core/memory.py) and the three agent stage methods it sequences         *)
(* (agents/*.py).                                                          *)
(*                                                                         *)
(* Python values are modelled as records carrying a `type` tag so that     *)
(* None, strings, datetimes, pydantic models and their dumped dicts stay   *)
(* distinguishable.  Time is an integer clock `now`: every agent method    *)
(* invocation takes one time unit (it awaits the text-generation service)  *)
(* and a backoff sleep of w seconds takes w units.                         *)
(***************************************************************************)
EXTENDS Integers, Sequences, FiniteSets, TLC

(***************************************************************************)
(* Bounds of the model                                                     *)
(***************************************************************************)
\* largest max_iterations the coordinator is constructed with
MaxIterations == 3
\* and how far below zero (the constructor takes any int)
MaxNegativeIterations == 1
\* largest max_retries the retry wrapper is called with directly
MaxRetries == 4
\* largest number of entries of target_kpis handed to _should_optimize
MaxKpis == 2
\* largest number of entries of target_kpis in a workflow run
MaxWorkflowKpis == 1

(***************************************************************************)
(* Program constants                                                       *)
(***************************************************************************)
\* _execute_with_retry(..., max_retries: int = 3)
DefaultMaxRetries == 3
\* AgentCoordinator(..., max_iterations: int = 2)
DefaultMaxIterations == 2

\* values a KPI target and a measured KPI take in the model
KpiValues == {1, 2}
\* the KPI names _should_optimize recognises, and one it does not
RecognizedKpis == {"roi", "conversions", "ctr"}
KpiNames == RecognizedKpis \cup {"impressions"}

(***************************************************************************)
(* Python values                                                           *)
(***************************************************************************)
None == [type |-> "None"]
Str(s) == [type |-> "str", val |-> <<"lit", s>>]
Datetime(t) == [type |-> "datetime", t |-> t]
\* datetime.isoformat(): 'YYYY-MM-DDTHH:MM:SS.ffffff'
IsoFormat(d) == [type |-> "str", val |-> <<"iso", d.t>>]
\* str(datetime): 'YYYY-MM-DD HH:MM:SS.ffffff'
StrOfDatetime(d) == [type |-> "str", val |-> <<"str", d.t>>]

\* class WorkflowState(str, Enum): member name |-> value
WorkflowState ==
    [PENDING            |-> "pending",
     ANALYZING_BRAND    |-> "analyzing_brand",
     GENERATING_CONTENT |-> "generating_content",
     PLANNING_CAMPAIGN  |-> "planning_campaign",
     EXECUTING_CAMPAIGN |-> "executing_campaign",
     COMPLETED          |-> "completed",
     FAILED             |-> "failed"]

\* the failures an agent method propagates from the text-generation boundary
StageErrors == {"BoundaryError", "ParseError"}
ErrorText ==
    [BoundaryError |-> "LLM request failed",
     ParseError    |-> "Expecting value: line 1 column 1 (char 0)",
     RuntimeError  |-> "No active session. Call create_session() first.",
     AttributeError |-> "object has no attribute 'append'",
     CancelledError |-> "",
     KeyError       |-> "<Platform.TWITTER: 'twitter'>",
     ZeroDivisionError |-> "float division by zero"]
\* an exception object; `id` tells two raises of the same kind apart
Exc(kind, id) == [type |-> "Exception", kind |-> kind, msg |-> ErrorText[kind], id |-> id]
\* str(e)
StrOfExc(e) == Str(e.msg)

VARIABLES
    \* AgentCoordinator configuration and the WorkflowInput of the call
    enable_feedback_loop, max_iterations, target_kpis,
    \* SharedMemory: session_id, memory (the in-memory mapping), files (disk)
    session_id, memory, files,
    \* execute_workflow: the WorkflowResult, the control position, the locals
    result, pc, brand_analysis, content_generation, campaign_result,
    iteration, improved_analysis, improved_content,
    \* _execute_with_retry: its arguments and locals, and what it hands back
    func, max_retries, attempt, last_error, retval, exc,
    \* what execute_workflow hands to its caller
    outcome,
    \* the clock read by datetime.now()
    now,
    \* history: values assigned to result.state, invocations and successes
    \* per agent method, outcomes of the current wrapper call, sleeps taken,
    \* feedback rounds begun, and for each round completed whether its
    \* campaign result met the KPIs
    state_trace, invoked, succeeded, op_log, sleeps, rounds, round_met,
    \* history: the stage slots of the store as the feedback round in
    \* progress found them
    round_slots,
    \* SharedMemory called directly: the call just made, the number of calls
    \* so far, the values saved by save() since the mapping was last replaced,
    \* and a second SharedMemory instance over the same storage path
    call, ncalls, saved, other,
    \* _execute_with_retry: the *args it hands to func
    args,
    \* history: every agent method invocation of the run with the results
    \* it was handed, in the order made
    inv_log,
    \* the WorkflowInput of the call: target_platforms and budget
    target_platforms, budget,
    \* SharedMemory called directly: the call made before the last one
    prev_call,
    \* two execute_workflow calls on one coordinator: which call is running,
    \* the variables of the call suspended in asyncio.sleep (None when there
    \* is none), and the session the first call had when the second began
    running, waiting, first_session

vars == <<enable_feedback_loop, max_iterations, target_kpis,
          session_id, memory, files,
          result, pc, brand_analysis, content_generation, campaign_result,
          iteration, improved_analysis, improved_content,
          func, max_retries, attempt, last_error, retval, exc,
          outcome, now,
          state_trace, invoked, succeeded, op_log, sleeps, rounds, round_met,
          round_slots, call, ncalls, saved, other, args, inv_log,
          target_platforms, budget, prev_call, running, waiting, first_session>>

taskVars == <<running, waiting, first_session>>
apiVars == <<call, ncalls, saved, other, prev_call, taskVars>>
configVars == <<enable_feedback_loop, max_iterations, target_kpis, target_platforms, budget>>
storeVars == <<session_id, memory, files>>
localVars == <<brand_analysis, content_generation, campaign_result,
               iteration, improved_analysis, improved_content>>
retryVars == <<func, max_retries, attempt, last_error, retval, exc>>
histVars == <<state_trace, invoked, succeeded, op_log, sleeps, rounds, round_met>>

(***************************************************************************)
(* SharedMemory (core/memory.py).  A store value is the record             *)
(* [session_id, memory, files]; every operation maps a store to the store  *)
(* it leaves behind.                                                       *)
(***************************************************************************)
Store == [session_id |-> session_id, memory |-> memory, files |-> files]

EmptyDict == [k \in {} |-> None]
List(items) == [type |-> "list", items |-> items]
Dict(cls) == [type |-> "dict", cls |-> cls]

\* value.model_dump() when the value has one (a pydantic model), else the value
ModelDumpSkipped(value) == value
ModelDump(value) ==
    IF value.type = "model" THEN [value EXCEPT !.type = "dict"] ELSE value

\* json.dump(..., default=str) of one slot value: a datetime nested in a
\* dumped model is not JSON-serialisable and is written as str(datetime)
JsonDefault(x) == IF x.type = "datetime" THEN StrOfDatetime(x) ELSE x

JsonItem(v) ==
    CASE v.type = "datetime" -> StrOfDatetime(v)
      [] v.type = "dict" /\ v.cls \in {"BrandAnalysisResult", "ContentGenerationResult"} ->
            [v EXCEPT !.created_at = JsonDefault(@)]
      [] v.type = "dict" /\ v.cls = "CampaignResult" ->
            [v EXCEPT !.executed_at = JsonDefault(@)]
      [] v.type = "dict" /\ v.cls = "AgentMessage" ->
            [v EXCEPT !.timestamp = JsonDefault(@)]
      [] OTHER -> v

\* the same for a slot value that may be a list of such values
JsonValue(v) ==
    IF v.type = "list"
    THEN [v EXCEPT !.items = [i \in DOMAIN v.items |-> JsonItem(v.items[i])]]
    ELSE JsonItem(v)

JsonDump(mem) == [k \in DOMAIN mem |-> JsonValue(mem[k])]

\* SharedMemory._persist
PersistNew(st) ==
    IF st.session_id = None \/ st.session_id \in DOMAIN st.files THEN st
    ELSE [st EXCEPT !.files =
            [f \in DOMAIN st.files \cup {st.session_id} |->
                IF f = st.session_id THEN JsonDump(st.memory) ELSE st.files[f]]]
Persist(st) ==
    IF st.session_id = None THEN st
    ELSE [st EXCEPT !.files =
            [f \in DOMAIN st.files \cup {st.session_id} |->
                IF f = st.session_id THEN JsonDump(st.memory) ELSE st.files[f]]]

\* f"session_{datetime.now().strftime('%Y%m%d_%H%M%S')}"
GeneratedSessionId(t) == [type |-> "str", val |-> <<"session_", t>>]

\* the mapping create_session installs
NewSessionMemory(sid, t) ==
    [k \in {"session_id", "created_at", "brand_profile", "brand_analysis",
            "content_assets", "campaign_plan", "campaign_results",
            "workflow_state", "messages", "metadata"} |->
        CASE k = "session_id"     -> sid
          [] k = "created_at"     -> IsoFormat(Datetime(t))
          [] k = "workflow_state" -> Str("pending")
          [] k = "messages"       -> List(<<>>)
          [] k = "metadata"       -> Dict("dict")
          [] OTHER                -> None]

\* SharedMemory.create_session(session_id=None) at time t
CreateSessionMerging(st, sid, t) ==
    LET id == IF sid = None THEN GeneratedSessionId(t) ELSE sid
        new == NewSessionMemory(id, t)
    IN Persist([st EXCEPT !.session_id = id,
                          !.memory = [k \in DOMAIN st.memory \cup DOMAIN new |->
                                        IF k \in DOMAIN new THEN new[k] ELSE st.memory[k]]])
CreateSession(st, sid, t) ==
    LET id == IF sid = None THEN GeneratedSessionId(t) ELSE sid
    IN Persist([st EXCEPT !.session_id = id, !.memory = NewSessionMemory(id, t)])

\* SharedMemory.save(key, value) at time t: the store left behind and the
\* exception raised (None when it returns)
SaveWithoutSession(st, key, value, t) ==
    [store |-> Persist([st EXCEPT !.memory =
                        [k \in DOMAIN st.memory \cup {key, "updated_at"} |->
                            CASE k = "updated_at" -> IsoFormat(Datetime(t))
                              [] k = key          -> ModelDump(value)
                              [] OTHER            -> st.memory[k]]]),
     exc |-> None]
Save(st, key, value, t) ==
    IF st.session_id = None
    THEN [store |-> st, exc |-> Exc("RuntimeError", t)]
    ELSE [store |-> Persist([st EXCEPT !.memory =
                        [k \in DOMAIN st.memory \cup {key, "updated_at"} |->
                            CASE k = "updated_at" -> IsoFormat(Datetime(t))
                              [] k = key          -> ModelDump(value)
                              [] OTHER            -> st.memory[k]]]),
          exc |-> None]

\* SharedMemory.get(key, default)
GetOrDefault(st, key, default) ==
    IF key \in DOMAIN st.memory /\ st.memory[key] # None
    THEN st.memory[key] ELSE default
Get(st, key, default) ==
    IF key \in DOMAIN st.memory THEN st.memory[key] ELSE default

\* SharedMemory.set_workflow_state(state)
SetWorkflowStateUnsaved(st, state, t) == [store |-> st, exc |-> None]
SetWorkflowState(st, state, t) == Save(st, "workflow_state", Str(state), t)

\* SharedMemory.get_workflow_state()
GetWorkflowState(st) == Get(st, "workflow_state", Str("pending"))

\* json.load of a session file: the document as plain Python data (the
\* files of the model hold the document json.dump wrote, as data)
JsonLoad(doc) == doc

\* SharedMemory.load_session(session_id): the store left behind and the
\* value returned
LoadSessionEager(st, sid) ==
    IF sid \notin DOMAIN st.files
    THEN [store |-> [st EXCEPT !.session_id = sid], ret |-> FALSE]
    ELSE [store |-> [st EXCEPT !.memory = JsonLoad(st.files[sid]),
                               !.session_id = sid],
          ret |-> TRUE]
LoadSession(st, sid) ==
    IF sid \notin DOMAIN st.files
    THEN [store |-> st, ret |-> FALSE]
    ELSE [store |-> [st EXCEPT !.memory = JsonLoad(st.files[sid]),
                               !.session_id = sid],
          ret |-> TRUE]

\* SharedMemory.update(updates) at time t, updates being (key, value) pairs
\* in insertion order: save each in turn, stopping at the first that raises
RECURSIVE Update(_, _, _)
Update(st, updates, t) ==
    IF updates = <<>> THEN [store |-> st, exc |-> None]
    ELSE LET sv == Save(st, updates[1][1], updates[1][2], t)
         IN IF sv.exc # None THEN sv
            ELSE Update(sv.store, Tail(updates), t)

\* an AgentMessage built at time t
AgentMessage(t) ==
    [type |-> "model", cls |-> "AgentMessage", timestamp |-> Datetime(t)]

\* SharedMemory.append_message(message) at time t: the store left behind
\* and the exception raised (None when it returns); a messages slot that
\* was overwritten with something other than a list has no append
AppendMessageReplacing(st, message, t) ==
    [store |-> Persist([st EXCEPT !.memory =
                    [k \in DOMAIN st.memory \cup {"messages"} |->
                        IF k = "messages" THEN List(<<ModelDump(message)>>)
                        ELSE st.memory[k]]]),
     exc |-> None]
AppendMessage(st, message, t) ==
    LET log == IF "messages" \in DOMAIN st.memory
               THEN st.memory["messages"] ELSE List(<<>>)
    IN IF log.type # "list"
       THEN [store |-> st, exc |-> Exc("AttributeError", t)]
       ELSE [store |-> Persist([st EXCEPT !.memory =
                        [k \in DOMAIN st.memory \cup {"messages"} |->
                            IF k = "messages"
                            THEN List(Append(log.items, ModelDump(message)))
                            ELSE st.memory[k]]]),
             exc |-> None]

\* SharedMemory.get_messages() without filters
GetMessages(st) == Get(st, "messages", List(<<>>))

\* SharedMemory.clear() at time t
ClearWithoutSession(st, t) ==
    Persist([st EXCEPT !.memory =
                [k \in {"session_id", "created_at", "cleared_at"} |->
                    IF k = "session_id" THEN st.session_id
                    ELSE IsoFormat(Datetime(t))]])
Clear(st, t) ==
    IF st.session_id = None THEN st
    ELSE Persist([st EXCEPT !.memory =
                    [k \in {"session_id", "created_at", "cleared_at"} |->
                        IF k = "session_id" THEN st.session_id
                        ELSE IsoFormat(Datetime(t))]])

\* SharedMemory.list_sessions: the stems of the session files
ListSessions(st) == DOMAIN st.files

\* SharedMemory.delete_session(session_id): the store left behind and the
\* value returned
DeleteSessionClosing(st, sid) ==
    IF sid \in DOMAIN st.files
    THEN [store |-> [session_id |-> IF sid = st.session_id THEN None ELSE st.session_id,
                     memory |-> IF sid = st.session_id THEN EmptyDict ELSE st.memory,
                     files |-> [f \in DOMAIN st.files \ {sid} |-> st.files[f]]],
          ret |-> TRUE]
    ELSE [store |-> st, ret |-> FALSE]
DeleteSession(st, sid) ==
    IF sid \in DOMAIN st.files
    THEN [store |-> [st EXCEPT !.files =
                        [f \in DOMAIN st.files \ {sid} |-> st.files[f]]],
          ret |-> TRUE]
    ELSE [store |-> st, ret |-> FALSE]

\* AgentCoordinator.get_workflow_status over the store st
GetWorkflowStatusInstalledKeys(st) ==
    [state              |-> GetWorkflowState(st),
     session_id         |-> st.session_id,
     brand_analysis     |-> Get(st, "brand_analysis", None) # None,
     content_generation |-> Get(st, "content_assets", None) # None,
     campaign_result    |-> Get(st, "campaign_results", None) # None]
GetWorkflowStatus(st) ==
    [state              |-> GetWorkflowState(st),
     session_id         |-> st.session_id,
     brand_analysis     |-> Get(st, "brand_analysis", None) # None,
     content_generation |-> Get(st, "content_generation", None) # None,
     campaign_result    |-> Get(st, "campaign_result", None) # None]

\* what the store holds in the three slots the agents save their results to
StageSlots(st) ==
    [brand_analysis     |-> Get(st, "brand_analysis", None),
     content_generation |-> Get(st, "content_generation", None),
     campaign_result    |-> Get(st, "campaign_result", None)]

(***************************************************************************)
(* WorkflowResult (core/models.py)                                         *)
(***************************************************************************)
NewWorkflowResult(state, t) ==
    [state              |-> state,
     brand_analysis     |-> None,
     content_generation |-> None,
     campaign_result    |-> None,
     error_message      |-> None,
     started_at         |-> Datetime(t),
     completed_at       |-> None]

(***************************************************************************)
(* Inputs                                                                  *)
(***************************************************************************)
\* target_kpis: a dict, i.e. (name, target) pairs in insertion order with
\* distinct names
RECURSIVE KpiDicts(_)
KpiDicts(n) ==
    IF n = 0 THEN {<<>>}
    ELSE LET shorter == KpiDicts(n - 1)
         IN shorter \cup
            {Append(d, <<k, v>>) :
                d \in {x \in shorter : Len(x) = n - 1},
                k \in KpiNames, v \in KpiValues}

HasDistinctKeys(d) == \A i, j \in 1..Len(d) : i # j => d[i][1] # d[j][1]
TargetKpis == {d \in KpiDicts(MaxKpis) : HasDistinctKeys(d)}

AgentMethods == {"analyze_brand", "generate_content", "execute_campaign", "refine_strategy"}

\* a constructed coordinator over a fresh SharedMemory, nothing called yet
Constructed ==
    /\ result = None
    /\ brand_analysis = None
    /\ content_generation = None
    /\ iteration = 0
    /\ improved_analysis = None
    /\ improved_content = None
    /\ attempt = 0
    /\ last_error = None
    /\ retval = None
    /\ exc = None
    /\ outcome = [kind |-> "none"]
    /\ state_trace = <<>>
    /\ invoked = [m \in AgentMethods |-> 0]
    /\ succeeded = [m \in AgentMethods |-> 0]
    /\ op_log = <<>>
    /\ sleeps = <<>>
    /\ rounds = 0
    /\ round_met = <<>>
    /\ round_slots = None
    /\ call = [op |-> "none"]
    /\ prev_call = [op |-> "none"]
    /\ running = 1
    /\ waiting = None
    /\ first_session = None
    /\ ncalls = 0
    /\ other = None
    /\ inv_log = <<>>

\* the state before execute_workflow is called, whatever the target
\* platforms and the budget of the call
Idle ==
    /\ Constructed
    /\ args = <<>>
    /\ now = 1
    /\ saved = EmptyDict
    /\ session_id = None
    /\ memory = EmptyDict
    /\ files = EmptyDict
    /\ enable_feedback_loop \in BOOLEAN
    /\ max_iterations \in (0 - MaxNegativeIterations)..MaxIterations
    /\ target_kpis \in {d \in TargetKpis : Len(d) <= MaxWorkflowKpis}
    /\ campaign_result = None
    /\ pc = "idle"
    /\ func = "none"
    /\ max_retries = DefaultMaxRetries

\* a call for one benchmarked platform with a positive budget
Init ==
    /\ Idle
    /\ target_platforms = <<"LINKEDIN">>
    /\ budget = 1

\* execute_workflow, lines 73-88: open the session, build the PENDING result
ExecuteWorkflowBegin ==
    /\ pc = "idle"
    /\ LET st == CreateSession(Store, None, now)
       IN /\ session_id' = st.session_id
          /\ memory' = st.memory
          /\ files' = st.files
    /\ result' = NewWorkflowResult("PENDING", now)
    /\ state_trace' = <<"PENDING">>
    /\ pc' = "try"
    /\ UNCHANGED <<apiVars, args, inv_log, round_slots, configVars, localVars, retryVars, outcome, now,
                   invoked, succeeded, op_log, sleeps, rounds, round_met>>

(***************************************************************************)
(* The agent methods (agents/*.py), one invocation each                    *)
(***************************************************************************)
BrandAnalysisResult(t) ==
    [type |-> "model", cls |-> "BrandAnalysisResult", created_at |-> Datetime(t)]
ContentGenerationResult(t) ==
    [type |-> "model", cls |-> "ContentGenerationResult", created_at |-> Datetime(t)]
CampaignResult(t, performance) ==
    [type |-> "model", cls |-> "CampaignResult", executed_at |-> Datetime(t),
     performance_metrics |-> performance]

\* PerformanceMetrics, reduced to the fields the coordinator compares
PerformanceMetrics == [roi : KpiValues, conversions : KpiValues, ctr : KpiValues]

\* the session-store slot each agent method saves its result to
SlotOfInstalledKeys ==
    [analyze_brand    |-> "brand_analysis",
     generate_content |-> "content_assets",
     execute_campaign |-> "campaign_results"]
SlotOf ==
    [analyze_brand    |-> "brand_analysis",
     generate_content |-> "content_generation",
     execute_campaign |-> "campaign_result"]

\* the results an invocation finishing at time t can build
ResultsOf(method, t) ==
    CASE method = "analyze_brand"    -> {BrandAnalysisResult(t)}
      [] method = "generate_content" -> {ContentGenerationResult(t)}
      [] method = "execute_campaign" -> {CampaignResult(t, p) : p \in PerformanceMetrics}

\* analyze_brand / generate_content / execute_campaign finishing at time t:
\* a sub-step fails and the failure propagates with nothing saved, or the
\* result is built, saved to the store and returned
AgentOutcomesSavingFirst(method, st, t) ==
    {[exc |-> Exc(k, t), value |-> None, store |-> Save(st, SlotOf[method], r, t).store] :
        k \in StageErrors, r \in ResultsOf(method, t)}
    \cup
    {LET sv == Save(st, SlotOf[method], r, t)
     IN [exc   |-> sv.exc,
         value |-> IF sv.exc = None THEN r ELSE None,
         store |-> sv.store] : r \in ResultsOf(method, t)}
AgentOutcomes(method, st, t) ==
    {[exc |-> Exc(k, t), value |-> None, store |-> st] : k \in StageErrors}
    \cup
    {LET sv == Save(st, SlotOf[method], r, t)
     IN [exc   |-> sv.exc,
         value |-> IF sv.exc = None THEN r ELSE None,
         store |-> sv.store] : r \in ResultsOf(method, t)}

(***************************************************************************)
(* CampaignManagerAgent.execute_campaign and CreativeEngineAgent           *)
(* .generate_content as functions of the WorkflowInput: what they compute  *)
(* before the text-generation boundary is reached                          *)
(***************************************************************************)
\* class Platform(str, Enum)
Platform == {"LINKEDIN", "GOOGLE_ADS", "FACEBOOK", "INSTAGRAM", "EMAIL", "TWITTER"}

\* the keys of self.channel_benchmarks
BenchmarkedChannelsAll == Platform
BenchmarkedChannels == {"LINKEDIN", "GOOGLE_ADS", "FACEBOOK", "INSTAGRAM", "EMAIL"}

\* generate_content with num_variants=1: the platforms of the content
\* assets, one asset per target platform in the order given
AssetPlatforms(platforms) == platforms

\* _create_campaign_plan: the channels of channel_strategies, one per
\* platform that has an asset, in the order of the platform's first asset
RECURSIVE ChannelsFrom(_, _)
ChannelsFrom(assets, seen) ==
    IF assets = <<>> THEN <<>>
    ELSE IF assets[1] \in seen THEN ChannelsFrom(Tail(assets), seen)
    ELSE <<assets[1]>> \o ChannelsFrom(Tail(assets), seen \cup {assets[1]})
Channels(assets) == ChannelsFrom(assets, {})

\* _create_campaign_plan: self.channel_benchmarks[platform] for each channel
CreateCampaignPlanError(assets) ==
    IF \E i \in 1..Len(Channels(assets)) : Channels(assets)[i] \notin BenchmarkedChannels
    THEN "KeyError" ELSE "none"

\* _optimize_budget_allocation: base_allocation * 1.2, 1.1 or 0.9, in tenths
AllocationWeight(channel) ==
    IF channel \in {"GOOGLE_ADS", "EMAIL"} THEN 12
    ELSE IF channel \in {"LINKEDIN"} THEN 11
    ELSE 9

\* total_allocated = sum(a.allocated_budget for a in allocations), as a
\* multiple of 1 / (10 * num_channels)
RECURSIVE TotalAllocated(_, _)
TotalAllocated(channels, total_budget) ==
    IF channels = <<>> THEN 0
    ELSE total_budget * AllocationWeight(channels[1])
            + TotalAllocated(Tail(channels), total_budget)

\* _optimize_budget_allocation: return [] for no channels, else
\* allocation.allocated_budget / total_allocated for each allocation
OptimizeBudgetAllocationGuarded(channels, total_budget) == "none"
OptimizeBudgetAllocationError(channels, total_budget) ==
    IF Len(channels) = 0 THEN "none"
    ELSE IF TotalAllocated(channels, total_budget) = 0 THEN "ZeroDivisionError"
    ELSE "none"

\* execute_campaign, steps 1 and 2: the error raised before the
\* optimization feedback is asked for, or "none"
ExecuteCampaignError(assets, total_budget) ==
    IF CreateCampaignPlanError(assets) # "none" THEN CreateCampaignPlanError(assets)
    ELSE OptimizeBudgetAllocationError(Channels(assets), total_budget)

\* an invocation of an agent method under the WorkflowInput of the call:
\* execute_campaign raises what steps 1 and 2 raise; generate_content asks
\* for no text when there is no target platform, so it builds and saves its
\* result; otherwise the outcomes are those of AgentOutcomes
InvocationOutcomes(method, st, t) ==
    IF method = "execute_campaign"
       /\ ExecuteCampaignError(AssetPlatforms(target_platforms), budget) # "none"
    THEN {[exc   |-> Exc(ExecuteCampaignError(AssetPlatforms(target_platforms), budget), t),
           value |-> None,
           store |-> st]}
    ELSE IF method = "generate_content" /\ target_platforms = <<>>
    THEN {o \in AgentOutcomes(method, st, t) : o.exc = None \/ o.exc.kind \notin StageErrors}
    ELSE AgentOutcomes(method, st, t)

\* the agent method each _stage_* function of the coordinator awaits
StageMethod ==
    [_stage_brand_analysis     |-> "analyze_brand",
     _stage_content_generation |-> "generate_content",
     _stage_campaign_execution |-> "execute_campaign"]
StageFuncs == DOMAIN StageMethod

\* the WorkflowInput execute_workflow was called with
WorkflowInput == [type |-> "model", cls |-> "WorkflowInput", target_kpis |-> target_kpis]

\* the stage results whose fields each _stage_* function hands to its agent
\* method, taken from the function's arguments a
StageCallArgsSwapped(f, a) ==
    CASE f = "_stage_brand_analysis"     -> <<>>
      [] f = "_stage_content_generation" -> <<a[1]>>
      [] f = "_stage_campaign_execution" -> <<a[2], a[1]>>
StageCallArgs(f, a) ==
    CASE f = "_stage_brand_analysis"     -> <<>>
      [] f = "_stage_content_generation" -> <<a[1]>>
      [] f = "_stage_campaign_execution" -> <<a[1], a[2]>>

\* arguments for a stage function called through the wrapper on its own
DirectArgs ==
    [_stage_brand_analysis     |-> <<WorkflowInput>>,
     _stage_content_generation |-> <<BrandAnalysisResult(0), WorkflowInput>>,
     _stage_campaign_execution |-> <<ContentGenerationResult(0), BrandAnalysisResult(0),
                                     WorkflowInput>>]

\* bookkeeping common to every invocation of an agent method; the
\* invocation finishes at time t
InvokeUntil(method, a, o, t) ==
    /\ now' = t
    /\ inv_log' = Append(inv_log, [method |-> method, args |-> a, value |-> o.value])
    /\ session_id' = o.store.session_id
    /\ memory' = o.store.memory
    /\ files' = o.store.files
    /\ invoked' = [invoked EXCEPT ![method] = @ + 1]
    /\ succeeded' = [succeeded EXCEPT ![method] = IF o.exc = None THEN @ + 1 ELSE @]

\* an invocation that takes one tick of the clock
Invoke(method, a, o) == InvokeUntil(method, a, o, now + 1)

(***************************************************************************)
(* AgentCoordinator._execute_with_retry                                    *)
(***************************************************************************)
\* for attempt in range(max_retries)
InRangeShort(a, bound) == a < bound - 1
InRange(a, bound) == a < bound

\* except Exception as e: last_error = e
CapturedErrorFirst(previous, e) == IF previous = None THEN e ELSE previous
CapturedError(previous, e) == e

\* except Exception as e: the exceptions the handler catches
CatchesAllButStoreErrors(e) == e.kind # "RuntimeError"
Catches(e) == TRUE

\* if attempt < max_retries - 1
ShouldBackoff(a, bound) == a < bound - 1

\* wait_time = 2 ** attempt
WaitTimeFromOne(a) == 2 ^ (a + 1)
WaitTime(a) == 2 ^ a

\* control after the body of iteration a: the next iteration, or the
\* raise last_error that follows the loop
AfterIteration(a, bound, err) ==
    /\ attempt' = a + 1
    /\ IF InRange(a + 1, bound)
       THEN pc' = "retry_call" /\ exc' = exc
       ELSE pc' = "retry_raise" /\ exc' = err

\* return await func(*args), the call returning
RetryAttemptReturns ==
    /\ pc = "retry_call"
    /\ \E o \in InvocationOutcomes(StageMethod[func], Store, now + 1) :
        /\ o.exc = None
        /\ Invoke(StageMethod[func], StageCallArgs(func, args), o)
        /\ op_log' = Append(op_log, [exc |-> o.exc, value |-> o.value])
        /\ retval' = o.value
    /\ pc' = "retry_return"
    /\ UNCHANGED <<apiVars, args, round_slots, configVars, result, localVars, func, max_retries, attempt,
                   last_error, exc, outcome, state_trace, sleeps, rounds, round_met>>

\* the call raising at time t: capture the error, then back off or leave
\* the loop
AttemptRaises(t) ==
    /\ pc = "retry_call"
    /\ \E o \in InvocationOutcomes(StageMethod[func], Store, t) :
        /\ o.exc # None
        /\ InvokeUntil(StageMethod[func], StageCallArgs(func, args), o, t)
        /\ op_log' = Append(op_log, [exc |-> o.exc, value |-> o.value])
        /\ IF Catches(o.exc)
           THEN /\ last_error' = CapturedError(last_error, o.exc)
                /\ IF ShouldBackoff(attempt, max_retries)
                   THEN pc' = "retry_sleep" /\ UNCHANGED <<attempt, exc>>
                   ELSE AfterIteration(attempt, max_retries, last_error')
           ELSE /\ pc' = "retry_raise"
                /\ exc' = o.exc
                /\ UNCHANGED <<attempt, last_error>>
    /\ UNCHANGED <<apiVars, args, round_slots, configVars, result, localVars, func, max_retries,
                   retval, outcome, state_trace, sleeps, rounds, round_met>>

RetryAttemptRaises == AttemptRaises(now + 1)

\* await asyncio.sleep(wait_time) completing
RetrySleep ==
    /\ pc = "retry_sleep"
    /\ now' = now + WaitTime(attempt)
    /\ sleeps' = Append(sleeps, WaitTime(attempt))
    /\ AfterIteration(attempt, max_retries, last_error)
    /\ UNCHANGED <<apiVars, args, inv_log, round_slots, configVars, storeVars, result, localVars, func, max_retries,
                   last_error, retval, outcome, state_trace, invoked,
                   succeeded, op_log, rounds, round_met>>

(***************************************************************************)
(* AgentCoordinator._should_optimize                                       *)
(***************************************************************************)
\* performance.<kpi> < target_value
BelowOrEqual(actual, target_value) == actual <= target_value
Below(actual, target_value) == actual < target_value

\* the for loop over target_kpis.items(), from entry i on
RECURSIVE KpiLoop(_, _, _)
KpiLoop(performance, kpis, i) ==
    IF i > Len(kpis) THEN FALSE
    ELSE LET kpi == kpis[i][1]
             target_value == kpis[i][2]
         IN IF kpi = "roi" /\ Below(performance.roi, target_value) THEN TRUE
            ELSE IF kpi = "conversions" /\ Below(performance.conversions, target_value) THEN TRUE
            ELSE IF kpi = "ctr" /\ Below(performance.ctr, target_value) THEN TRUE
            ELSE KpiLoop(performance, kpis, i + 1)

ShouldOptimize(campaign, kpis) ==
    IF kpis = <<>> THEN FALSE
    ELSE KpiLoop(campaign.performance_metrics, kpis, 1)

(***************************************************************************)
(* AgentCoordinator.execute_workflow, after its first lines                *)
(***************************************************************************)
\* the state each retry-wrapped stage function runs under
StageStateSkipped ==
    [_stage_brand_analysis     |-> "ANALYZING_BRAND",
     _stage_content_generation |-> "GENERATING_CONTENT",
     _stage_campaign_execution |-> "PLANNING_CAMPAIGN"]
StageState ==
    [_stage_brand_analysis     |-> "ANALYZING_BRAND",
     _stage_content_generation |-> "GENERATING_CONTENT",
     _stage_campaign_execution |-> "EXECUTING_CAMPAIGN"]

\* result.state = <state>; self.memory.set_workflow_state(result.state.value);
\* await self._execute_with_retry(f, ...), up to its first invocation of f.
\* r is the WorkflowResult as the preceding statements left it.
EnterStage(r, f) ==
    LET sv == SetWorkflowState(Store, WorkflowState[StageState[f]], now)
    IN /\ result' = [r EXCEPT !.state = StageState[f]]
       /\ state_trace' = Append(state_trace, StageState[f])
       /\ session_id' = sv.store.session_id
       /\ memory' = sv.store.memory
       /\ files' = sv.store.files
       /\ IF sv.exc = None
          THEN /\ func' = f
               /\ max_retries' = DefaultMaxRetries
               /\ attempt' = 0
               /\ last_error' = None
               /\ op_log' = <<>>
               /\ pc' = "retry_call"
               /\ exc' = exc
          ELSE /\ pc' = "except"
               /\ exc' = sv.exc
               /\ UNCHANGED <<func, max_retries, attempt, last_error, op_log>>

\* lines 91-98
StartBrandAnalysis ==
    /\ pc = "try"
    /\ args' = <<WorkflowInput>>
    /\ EnterStage(result, "_stage_brand_analysis")
    /\ UNCHANGED <<apiVars, inv_log, round_slots, configVars, localVars, retval, outcome, now,
                   invoked, succeeded, sleeps, rounds, round_met>>

\* lines 99-108
StartContentGeneration ==
    /\ pc = "retry_return"
    /\ func = "_stage_brand_analysis"
    /\ brand_analysis' = retval
    /\ args' = <<retval, WorkflowInput>>
    /\ EnterStage([result EXCEPT !.brand_analysis = retval],
                  "_stage_content_generation")
    /\ UNCHANGED <<apiVars, inv_log, round_slots, configVars, content_generation, campaign_result, iteration,
                   improved_analysis, improved_content, retval, outcome, now,
                   invoked, succeeded, sleeps, rounds, round_met>>

\* lines 109-118
StartCampaignExecution ==
    /\ pc = "retry_return"
    /\ func = "_stage_content_generation"
    /\ content_generation' = retval
    /\ args' = <<retval, brand_analysis, WorkflowInput>>
    /\ EnterStage([result EXCEPT !.content_generation = retval],
                  "_stage_campaign_execution")
    /\ UNCHANGED <<apiVars, inv_log, round_slots, configVars, brand_analysis, campaign_result, iteration,
                   improved_analysis, improved_content, retval, outcome, now,
                   invoked, succeeded, sleeps, rounds, round_met>>

\* for iteration in range(self.max_iterations - 1)
LoopHasNextAll(i, bound) == i < bound
LoopHasNext(i, bound) == i < bound - 1

\* if self.enable_feedback_loop and self._should_optimize(campaign_result, workflow_input)
FeedbackWantedAlways(enabled, campaign, kpis) == enabled
FeedbackWanted(enabled, campaign, kpis) == enabled /\ ShouldOptimize(campaign, kpis)

\* lines 119-125: keep the campaign result, decide whether the loop runs
FeedbackDecision ==
    /\ pc = "retry_return"
    /\ func = "_stage_campaign_execution"
    /\ campaign_result' = retval
    /\ result' = [result EXCEPT !.campaign_result = retval]
    /\ IF FeedbackWanted(enable_feedback_loop, retval, target_kpis)
          /\ LoopHasNext(0, max_iterations)
       THEN pc' = "refine" /\ iteration' = 0
       ELSE pc' = "complete" /\ iteration' = iteration
    /\ UNCHANGED <<apiVars, args, inv_log, round_slots, configVars, storeVars, brand_analysis, content_generation,
                   improved_analysis, improved_content, retryVars, outcome, now,
                   histVars>>

\* BrandStrategistAgent.refine_strategy: return current_analysis
RefinedAnalysisNone(current_analysis) == None
RefinedAnalysis(current_analysis) == current_analysis

\* lines 129-132: the analysis handed to refine_strategy and the campaign
\* result whose optimization_feedback is handed to it; r is the
\* WorkflowResult
RefineStrategyArgsLatest(analysis, campaign, r) == <<r.brand_analysis, r.campaign_result>>
RefineStrategyArgs(analysis, campaign, r) == <<analysis, campaign>>

\* lines 128-132: await refine_strategy(brand_analysis, feedback)
RefineStrategy ==
    /\ pc = "refine"
    /\ LET a == RefineStrategyArgs(brand_analysis, campaign_result, result)
       IN /\ improved_analysis' = RefinedAnalysis(a[1])
          /\ inv_log' = Append(inv_log, [method |-> "refine_strategy",
                                          args |-> a,
                                          value |-> RefinedAnalysis(a[1])])
    /\ invoked' = [invoked EXCEPT !["refine_strategy"] = @ + 1]
    /\ succeeded' = [succeeded EXCEPT !["refine_strategy"] = @ + 1]
    /\ rounds' = rounds + 1
    /\ round_slots' = StageSlots(Store)
    /\ pc' = "regenerate"
    /\ UNCHANGED <<apiVars, args, configVars, storeVars, result, brand_analysis,
                   content_generation, campaign_result, iteration,
                   improved_content, retryVars, outcome, now,
                   state_trace, op_log, sleeps, round_met>>

\* lines 134-139, generate_content returning
RegenerateContentReturns ==
    /\ pc = "regenerate"
    /\ \E o \in InvocationOutcomes("generate_content", Store, now + 1) :
        /\ o.exc = None
        /\ Invoke("generate_content", <<improved_analysis>>, o)
        /\ improved_content' = o.value
    /\ pc' = "reexecute"
    /\ UNCHANGED <<apiVars, args, round_slots, configVars, result, brand_analysis, content_generation,
                   campaign_result, iteration, improved_analysis, retryVars,
                   outcome, state_trace, op_log, sleeps, rounds, round_met>>

\* lines 134-139, generate_content raising
RegenerateContentRaises ==
    /\ pc = "regenerate"
    /\ \E o \in InvocationOutcomes("generate_content", Store, now + 1) :
        /\ o.exc # None
        /\ Invoke("generate_content", <<improved_analysis>>, o)
        /\ exc' = o.exc
    /\ pc' = "except"
    /\ UNCHANGED <<apiVars, args, round_slots, configVars, result, localVars, func, max_retries, attempt,
                   last_error, retval, outcome, state_trace, op_log, sleeps,
                   rounds, round_met>>

\* lines 150-152: result.brand_analysis = improved_analysis, and so on
UpdatedResultsCampaignOnly(r, analysis, content, campaign) ==
    [r EXCEPT !.campaign_result = campaign]
UpdatedResults(r, analysis, content, campaign) ==
    [r EXCEPT !.brand_analysis = analysis,
              !.content_generation = content,
              !.campaign_result = campaign]

\* lines 141-157, execute_campaign returning: overwrite the results, then
\* break, go round again or fall out of the loop
ReexecuteCampaignReturns ==
    /\ pc = "reexecute"
    /\ \E o \in InvocationOutcomes("execute_campaign", Store, now + 1) :
        /\ o.exc = None
        /\ Invoke("execute_campaign", <<improved_content, improved_analysis>>, o)
        /\ result' = UpdatedResults(result, improved_analysis, improved_content, o.value)
        /\ round_met' = Append(round_met, ~ShouldOptimize(o.value, target_kpis))
        /\ IF ~ShouldOptimize(o.value, target_kpis)
           THEN pc' = "complete" /\ iteration' = iteration
           ELSE IF LoopHasNext(iteration + 1, max_iterations)
                THEN pc' = "refine" /\ iteration' = iteration + 1
                ELSE pc' = "complete" /\ iteration' = iteration
    /\ UNCHANGED <<apiVars, args, round_slots, configVars, brand_analysis, content_generation,
                   campaign_result, improved_analysis, improved_content,
                   retryVars, outcome, state_trace, op_log, sleeps, rounds>>

\* lines 141-147, execute_campaign raising
ReexecuteCampaignRetried ==
    /\ pc = "reexecute"
    /\ \E o \in InvocationOutcomes("execute_campaign", Store, now + 1) :
        /\ o.exc # None
        /\ Invoke("execute_campaign", <<improved_content, improved_analysis>>, o)
    /\ pc' = "reexecute"
    /\ UNCHANGED <<apiVars, args, round_slots, configVars, result, localVars, retryVars,
                   outcome, state_trace, op_log, sleeps, rounds, round_met>>
ReexecuteCampaignRaises ==
    /\ pc = "reexecute"
    /\ \E o \in InvocationOutcomes("execute_campaign", Store, now + 1) :
        /\ o.exc # None
        /\ Invoke("execute_campaign", <<improved_content, improved_analysis>>, o)
        /\ exc' = o.exc
    /\ pc' = "except"
    /\ UNCHANGED <<apiVars, args, round_slots, configVars, result, localVars, func, max_retries, attempt,
                   last_error, retval, outcome, state_trace, op_log, sleeps,
                   rounds, round_met>>

\* the state the pipeline ends in when nothing was left unrecovered
FinalStateUnmetFails(r, kpis) ==
    IF ShouldOptimize(r.campaign_result, kpis) THEN "FAILED" ELSE "COMPLETED"
FinalState(r, kpis) == "COMPLETED"

\* lines 159-162 and 178: complete and return the result
CompleteWorkflow ==
    /\ pc = "complete"
    /\ LET final == FinalState(result, target_kpis)
           sv == SetWorkflowState(Store, WorkflowState[final], now)
           r == [result EXCEPT !.state = final, !.completed_at = Datetime(now)]
       IN /\ result' = r
          /\ state_trace' = Append(state_trace, final)
          /\ session_id' = sv.store.session_id
          /\ memory' = sv.store.memory
          /\ files' = sv.store.files
          /\ IF sv.exc = None
             THEN pc' = "done" /\ outcome' = [kind |-> "return", value |-> r]
                  /\ exc' = exc
             ELSE pc' = "except" /\ outcome' = outcome /\ exc' = sv.exc
    /\ UNCHANGED <<apiVars, args, inv_log, round_slots, configVars, localVars, func, max_retries, attempt,
                   last_error, retval, now, invoked, succeeded, op_log,
                   sleeps, rounds, round_met>>

\* what the except clause does once the failure is recorded: `raise`
HandlerReturns(r, e) == [kind |-> "return", value |-> r]
HandlerRaises(r, e) == [kind |-> "raise", exc |-> e]

\* lines 169-176: except Exception as e
ExceptHandler ==
    /\ pc \in {"retry_raise", "except"}
    /\ LET sv == SetWorkflowState(Store, WorkflowState["FAILED"], now)
           r == [result EXCEPT !.state = "FAILED",
                               !.error_message = StrOfExc(exc),
                               !.completed_at = Datetime(now)]
       IN /\ result' = r
          /\ state_trace' = Append(state_trace, "FAILED")
          /\ session_id' = sv.store.session_id
          /\ memory' = sv.store.memory
          /\ files' = sv.store.files
          /\ outcome' = IF sv.exc = None THEN HandlerRaises(r, exc)
                        ELSE [kind |-> "raise", exc |-> sv.exc]
    /\ pc' = "done"
    /\ UNCHANGED <<apiVars, args, inv_log, round_slots, configVars, localVars, retryVars, now, invoked, succeeded,
                   op_log, sleeps, rounds, round_met>>

Next ==
    \/ ExecuteWorkflowBegin
    \/ StartBrandAnalysis
    \/ RetryAttemptReturns
    \/ RetryAttemptRaises
    \/ RetrySleep
    \/ StartContentGeneration
    \/ StartCampaignExecution
    \/ FeedbackDecision
    \/ RefineStrategy
    \/ RegenerateContentReturns
    \/ RegenerateContentRaises
    \/ ReexecuteCampaignReturns
    \/ ReexecuteCampaignRaises
    \/ CompleteWorkflow
    \/ ExceptHandler

Spec == Init /\ [][Next]_vars

(***************************************************************************)
(* execute_workflow under the assumption that every awaited call and every *)
(* backoff sleep finishes: once called, the coroutine keeps taking steps.   *)
(* The workflow inputs are reduced to no target and one target on roi, the  *)
(* iteration budget to MaxLiveIterations.                                  *)
(***************************************************************************)
MaxLiveIterations == 2

InitLive ==
    /\ Init
    /\ max_iterations <= MaxLiveIterations
    /\ target_kpis \in {<<>>, <<<<"roi", 2>>>>}

\* the steps of a call of execute_workflow after its first lines
Running ==
    \/ StartBrandAnalysis
    \/ RetryAttemptReturns
    \/ RetryAttemptRaises
    \/ RetrySleep
    \/ StartContentGeneration
    \/ StartCampaignExecution
    \/ FeedbackDecision
    \/ RefineStrategy
    \/ RegenerateContentReturns
    \/ RegenerateContentRaises
    \/ ReexecuteCampaignReturns
    \/ ReexecuteCampaignRaises
    \/ CompleteWorkflow
    \/ ExceptHandler

NextLive == ExecuteWorkflowBegin \/ Running

SpecLive == InitLive /\ [][NextLive]_vars /\ WF_vars(Running)

(***************************************************************************)
(* execute_workflow run as a task that its caller may cancel while it is   *)
(* suspended in the backoff sleep: asyncio raises CancelledError at the     *)
(* await.  The sleep is awaited inside the wrapper's own except block, so   *)
(* the only handler the error meets is the except clause of                *)
(* execute_workflow.                                                       *)
(***************************************************************************)
\* except Exception as e (coordinator.py:169): CancelledError derives from
\* BaseException, not from Exception
ExceptClauseCatchesAll(e) == TRUE
ExceptClauseCatches(e) == e.kind # "CancelledError"

CancelDuringBackoff ==
    /\ pc = "retry_sleep"
    /\ LET e == Exc("CancelledError", now)
       IN IF ExceptClauseCatches(e)
          THEN pc' = "except" /\ exc' = e /\ outcome' = outcome
          ELSE pc' = "cancelled" /\ exc' = exc
               /\ outcome' = [kind |-> "raise", exc |-> e]
    /\ UNCHANGED <<apiVars, args, inv_log, round_slots, configVars, storeVars, result,
                   localVars, func, max_retries, attempt, last_error, retval, now,
                   histVars>>

NextCancel == Next \/ CancelDuringBackoff

SpecCancel == InitLive /\ [][NextCancel]_vars

(***************************************************************************)
(* execute_workflow called with any list of target platforms up to         *)
(* MaxPlatforms long and a budget of 0 or more, which WorkflowInput        *)
(* accepts (budget: float = Field(ge=0)); the feedback loop is enabled     *)
(* with the default max_iterations and a target on roi                     *)
(***************************************************************************)
MaxPlatforms == 2
MaxBudget == 1

RECURSIVE PlatformLists(_)
PlatformLists(n) ==
    IF n = 0 THEN {<<>>}
    ELSE PlatformLists(n - 1)
         \cup {Append(l, p) : l \in {x \in PlatformLists(n - 1) : Len(x) = n - 1},
                              p \in Platform}

InitCampaign ==
    /\ Idle
    /\ enable_feedback_loop = TRUE
    /\ max_iterations = DefaultMaxIterations
    /\ target_kpis = <<<<"roi", 2>>>>
    /\ target_platforms \in PlatformLists(MaxPlatforms)
    /\ budget \in 0..MaxBudget

SpecCampaign == InitCampaign /\ [][Next]_vars

(***************************************************************************)
(* Two execute_workflow calls of one coordinator, and so on one            *)
(* SharedMemory, run as tasks of one event loop.  The only await of the    *)
(* workflow that suspends is asyncio.sleep in the retry wrapper (the text  *)
(* generation client is called synchronously), so a call runs until it     *)
(* sleeps or finishes.  The second call starts while the first sleeps.     *)
(* The feedback loop is disabled.                                          *)
(***************************************************************************)
\* the variables of the running call
Frame ==
    [result |-> result,
     pc |-> pc,
     brand_analysis |-> brand_analysis,
     content_generation |-> content_generation,
     campaign_result |-> campaign_result,
     iteration |-> iteration,
     improved_analysis |-> improved_analysis,
     improved_content |-> improved_content,
     func |-> func,
     max_retries |-> max_retries,
     attempt |-> attempt,
     last_error |-> last_error,
     retval |-> retval,
     exc |-> exc,
     outcome |-> outcome,
     args |-> args,
     state_trace |-> state_trace,
     invoked |-> invoked,
     succeeded |-> succeeded,
     op_log |-> op_log,
     sleeps |-> sleeps,
     rounds |-> rounds,
     round_met |-> round_met,
     round_slots |-> round_slots,
     inv_log |-> inv_log]

\* the variables of a call not yet begun
IdleFrame ==
    [result |-> None,
     pc |-> "idle",
     brand_analysis |-> None,
     content_generation |-> None,
     campaign_result |-> None,
     iteration |-> 0,
     improved_analysis |-> None,
     improved_content |-> None,
     func |-> "none",
     max_retries |-> DefaultMaxRetries,
     attempt |-> 0,
     last_error |-> None,
     retval |-> None,
     exc |-> None,
     outcome |-> [kind |-> "none"],
     args |-> <<>>,
     state_trace |-> <<>>,
     invoked |-> [m \in AgentMethods |-> 0],
     succeeded |-> [m \in AgentMethods |-> 0],
     op_log |-> <<>>,
     sleeps |-> <<>>,
     rounds |-> 0,
     round_met |-> <<>>,
     round_slots |-> None,
     inv_log |-> <<>>]

\* the call whose variables are f runs on
Resume(f) ==
    /\ result' = f.result
    /\ pc' = f.pc
    /\ brand_analysis' = f.brand_analysis
    /\ content_generation' = f.content_generation
    /\ campaign_result' = f.campaign_result
    /\ iteration' = f.iteration
    /\ improved_analysis' = f.improved_analysis
    /\ improved_content' = f.improved_content
    /\ func' = f.func
    /\ max_retries' = f.max_retries
    /\ attempt' = f.attempt
    /\ last_error' = f.last_error
    /\ retval' = f.retval
    /\ exc' = f.exc
    /\ outcome' = f.outcome
    /\ args' = f.args
    /\ state_trace' = f.state_trace
    /\ invoked' = f.invoked
    /\ succeeded' = f.succeeded
    /\ op_log' = f.op_log
    /\ sleeps' = f.sleeps
    /\ rounds' = f.rounds
    /\ round_met' = f.round_met
    /\ round_slots' = f.round_slots
    /\ inv_log' = f.inv_log

\* largest number of failed attempts of the two calls together
MaxSharedFailures == 3

\* the failed attempts of the two calls so far
FailedAttempts(f) ==
    LET failed(m) == f.invoked[m] - f.succeeded[m]
    IN failed("analyze_brand") + failed("generate_content") + failed("execute_campaign")
SharedFailures == FailedAttempts(Frame) + (IF waiting = None THEN 0 ELSE FailedAttempts(waiting))

\* an attempt that fails after a tick of the clock
SharedAttemptRaises ==
    /\ SharedFailures < MaxSharedFailures
    /\ RetryAttemptRaises

\* an attempt that fails at once, the clock still reading the second in
\* which the call created its session
SharedAttemptRaisesAtOnce ==
    /\ SharedFailures < MaxSharedFailures
    /\ pc = "retry_call"
    /\ now = result.started_at.t
    /\ AttemptRaises(now)

\* the first call sleeps in its backoff; the second call is started
StartSecondCall ==
    /\ pc = "retry_sleep"
    /\ running = 1
    /\ waiting = None
    /\ waiting' = Frame
    /\ running' = 2
    /\ first_session' = session_id
    /\ Resume(IdleFrame)
    /\ UNCHANGED <<call, ncalls, saved, other, prev_call, configVars, storeVars, now>>

\* the running call sleeps or has finished; the event loop runs the other
\* call, whose sleep is over
SwitchCall ==
    /\ waiting # None
    /\ waiting.pc = "retry_sleep"
    /\ pc \in {"retry_sleep", "done"}
    /\ waiting' = Frame
    /\ running' = 3 - running
    /\ Resume(waiting)
    /\ UNCHANGED <<call, ncalls, saved, other, prev_call, first_session, configVars,
                   storeVars, now>>

InitShared ==
    /\ Init
    /\ enable_feedback_loop = FALSE
    /\ max_iterations = DefaultMaxIterations
    /\ target_kpis = <<>>

NextShared ==
    \/ ExecuteWorkflowBegin
    \/ StartBrandAnalysis
    \/ RetryAttemptReturns
    \/ SharedAttemptRaises
    \/ SharedAttemptRaisesAtOnce
    \/ RetrySleep
    \/ StartContentGeneration
    \/ StartCampaignExecution
    \/ FeedbackDecision
    \/ CompleteWorkflow
    \/ ExceptHandler
    \/ StartSecondCall
    \/ SwitchCall

SpecShared == InitShared /\ [][NextShared]_vars

(***************************************************************************)
(* _execute_with_retry called directly on a stage function, with any       *)
(* bound AgentConfig.max_retries admits (ge=1), over a store with or       *)
(* without an open session                                                 *)
(***************************************************************************)
FreshStore == [session_id |-> None, memory |-> EmptyDict, files |-> EmptyDict]

InitRetry ==
    /\ Constructed
    /\ target_platforms = <<"LINKEDIN">>
    /\ budget = 1
    /\ now = 1
    /\ saved = EmptyDict
    /\ \E st \in {FreshStore, CreateSession(FreshStore, None, 1)} :
        /\ session_id = st.session_id
        /\ memory = st.memory
        /\ files = st.files
    /\ enable_feedback_loop = TRUE
    /\ max_iterations = DefaultMaxIterations
    /\ target_kpis = <<>>
    /\ campaign_result = None
    /\ pc = "retry_call"
    /\ func \in StageFuncs
    /\ max_retries \in 1..MaxRetries
    /\ args = DirectArgs[func]

NextRetry ==
    \/ RetryAttemptReturns
    \/ RetryAttemptRaises
    \/ RetrySleep

SpecRetry == InitRetry /\ [][NextRetry]_vars

(***************************************************************************)
(* _should_optimize called directly on any campaign result and target_kpis *)
(***************************************************************************)
Bool(b) == [type |-> "bool", val |-> b]

InitKpi ==
    /\ Constructed
    /\ target_platforms = <<"LINKEDIN">>
    /\ budget = 1
    /\ args = <<>>
    /\ now = 1
    /\ saved = EmptyDict
    /\ session_id = None
    /\ memory = EmptyDict
    /\ files = EmptyDict
    /\ enable_feedback_loop = TRUE
    /\ max_iterations = DefaultMaxIterations
    /\ target_kpis \in TargetKpis
    /\ campaign_result \in ResultsOf("execute_campaign", 1)
    /\ pc = "kpi_call"
    /\ func = "_should_optimize"
    /\ max_retries = DefaultMaxRetries

ShouldOptimizeCall ==
    /\ pc = "kpi_call"
    /\ retval' = Bool(ShouldOptimize(campaign_result, target_kpis))
    /\ pc' = "kpi_return"
    /\ UNCHANGED <<apiVars, args, inv_log, round_slots, configVars, storeVars, result, localVars, func, max_retries,
                   attempt, last_error, exc, outcome, now, histVars>>

NextKpi == ShouldOptimizeCall

SpecKpi == InitKpi /\ [][NextKpi]_vars

(***************************************************************************)
(* The SharedMemory operations called directly, in any order, on a store   *)
(* that has no session, a new session, or a session already written to.    *)
(* call records the operation and its arguments, retval and exc what it    *)
(* returned or raised; saved records, per key, the value handed to save    *)
(* since the mapping was last replaced or the slot otherwise written.      *)
(***************************************************************************)
MaxCalls == 3

StoreKeys == {"brand_analysis", "content_generation", "updated_at", "messages"}
StoreValues(t) == {Str("draft"), BrandAnalysisResult(t)}
SessionIds == {Str("s1"), Str("s2")}
Defaults == {None, Str("default")}
UpdateArgs(t) ==
    {<<>>,
     <<<<"brand_analysis", Str("draft")>>>>,
     <<<<"content_generation", BrandAnalysisResult(t)>>,
       <<"brand_analysis", Str("final")>>>>}

\* the plain data a saved value is expected to be read back as
SerializedForm(v) ==
    IF v.type = "model" THEN [f \in DOMAIN v |-> IF f = "type" THEN "dict" ELSE v[f]]
    ELSE v

Remember(s, key, v) ==
    [k \in (DOMAIN s \ {"updated_at"}) \cup {key} |->
        IF k = key THEN SerializedForm(v) ELSE s[k]]

Forget(s, key) == [k \in DOMAIN s \ {key} |-> s[k]]

RECURSIVE RememberAll(_, _)
RememberAll(s, updates) ==
    IF updates = <<>> THEN s
    ELSE RememberAll(Remember(s, updates[1][1], updates[1][2]), Tail(updates))

\* a store with a session that was saved to and logged a message
UsedStore ==
    LET created == CreateSession(FreshStore, Str("s1"), 1)
        saved1  == Save(created, "brand_analysis", BrandAnalysisResult(2), 2).store
        stated  == SetWorkflowState(saved1, "analyzing_brand", 3).store
    IN AppendMessage(stated, AgentMessage(4), 4).store

\* a new SharedMemory over the directory an earlier instance wrote to
ReopenedStore == [FreshStore EXCEPT !.files = UsedStore.files]

\* the stores the calls start from, with the values saved to the open
\* session so far and the time
PriorStores ==
    <<[store |-> FreshStore, saved |-> EmptyDict, now |-> 1],
      [store |-> CreateSession(FreshStore, None, 1), saved |-> EmptyDict, now |-> 2],
      [store |-> UsedStore,
       saved |-> Remember(Remember(EmptyDict, "brand_analysis", BrandAnalysisResult(2)),
                          "workflow_state", Str("analyzing_brand")),
       now |-> 5],
      [store |-> ReopenedStore, saved |-> EmptyDict, now |-> 6]>>

InitStore ==
    /\ Constructed
    /\ target_platforms = <<"LINKEDIN">>
    /\ budget = 1
    /\ args = <<>>
    /\ \E i \in DOMAIN PriorStores :
        /\ session_id = PriorStores[i].store.session_id
        /\ memory = PriorStores[i].store.memory
        /\ files = PriorStores[i].store.files
        /\ saved = PriorStores[i].saved
        /\ now = PriorStores[i].now
    /\ enable_feedback_loop = TRUE
    /\ max_iterations = DefaultMaxIterations
    /\ target_kpis = <<>>
    /\ campaign_result = None
    /\ pc = "store"
    /\ func = "none"
    /\ max_retries = DefaultMaxRetries

\* one call on the store: st is the store it leaves behind
StoreCall(c, st, ret, e) ==
    /\ pc = "store"
    /\ ncalls < MaxCalls
    /\ ncalls' = ncalls + 1
    /\ call' = c
    /\ prev_call' = call
    /\ session_id' = st.session_id
    /\ memory' = st.memory
    /\ files' = st.files
    /\ retval' = ret
    /\ exc' = e
    /\ now' = now + 1
    /\ UNCHANGED <<other, taskVars, args, inv_log, round_slots, configVars, result, pc, localVars, func,
                   max_retries, attempt, last_error, outcome, histVars>>

CreateSessionCall ==
    \E sid \in {None, Str("s1")} :
        LET st == CreateSession(Store, sid, now)
        IN /\ StoreCall([op |-> "create_session", session_id |-> sid],
                        st, st.session_id, None)
           /\ saved' = EmptyDict

LoadSessionCall ==
    \E sid \in SessionIds \cup DOMAIN files :
        LET r == LoadSession(Store, sid)
        IN /\ StoreCall([op |-> "load_session", session_id |-> sid],
                        r.store, Bool(r.ret), None)
           /\ saved' = IF r.ret THEN EmptyDict ELSE saved

SaveCall ==
    \E key \in StoreKeys, value \in StoreValues(now) :
        LET r == Save(Store, key, value, now)
        IN /\ StoreCall([op |-> "save", key |-> key, value |-> value],
                        r.store, None, r.exc)
           /\ saved' = IF r.exc = None THEN Remember(saved, key, value) ELSE saved

UpdateCall ==
    \E updates \in UpdateArgs(now) :
        LET r == Update(Store, updates, now)
        IN /\ StoreCall([op |-> "update", updates |-> updates],
                        r.store, None, r.exc)
           /\ saved' = IF r.exc = None THEN RememberAll(saved, updates) ELSE saved

SetWorkflowStateCall ==
    \E state \in {"generating_content"} :
        LET r == SetWorkflowState(Store, state, now)
        IN /\ StoreCall([op |-> "set_workflow_state", state |-> state],
                        r.store, None, r.exc)
           /\ saved' = IF r.exc = None
                       THEN Remember(saved, "workflow_state", Str(state)) ELSE saved

GetCall ==
    \E key \in StoreKeys \cup {"workflow_state"}, default \in Defaults :
        /\ StoreCall([op |-> "get", key |-> key, default |-> default],
                     Store, Get(Store, key, default), None)
        /\ UNCHANGED saved

AppendMessageCall ==
    LET r == AppendMessage(Store, AgentMessage(now), now)
    IN /\ StoreCall([op |-> "append_message", message |-> AgentMessage(now)],
                    r.store, None, r.exc)
       /\ saved' = IF r.exc = None THEN Forget(saved, "messages") ELSE saved

ClearCall ==
    /\ StoreCall([op |-> "clear"], Clear(Store, now), None, None)
    /\ saved' = IF session_id = None THEN saved ELSE EmptyDict

DeleteSessionCall ==
    \E sid \in SessionIds \cup DOMAIN files :
        LET r == DeleteSession(Store, sid)
        IN /\ StoreCall([op |-> "delete_session", session_id |-> sid],
                        r.store, Bool(r.ret), None)
           /\ UNCHANGED saved

NextStore ==
    \/ CreateSessionCall
    \/ LoadSessionCall
    \/ SaveCall
    \/ UpdateCall
    \/ SetWorkflowStateCall
    \/ GetCall
    \/ AppendMessageCall
    \/ ClearCall
    \/ DeleteSessionCall

SpecStore == InitStore /\ [][NextStore]_vars

(***************************************************************************)
(* Properties                                                              *)
(***************************************************************************)
IsPrefix(s, t) == Len(s) <= Len(t) /\ \A i \in 1..Len(s) : s[i] = t[i]
Last(s) == s[Len(s)]
AllSucceeded == \A m \in AgentMethods : invoked[m] = succeeded[m]
Returned == pc = "done" /\ outcome.kind = "return"
Raised == pc = "done" /\ outcome.kind = "raise"

\* the measured value of a recognised KPI
Actual(performance, kpi) ==
    CASE kpi = "roi"         -> performance.roi
      [] kpi = "conversions" -> performance.conversions
      [] kpi = "ctr"         -> performance.ctr

\* some recognised KPI of the target mapping is strictly below its target
KpiUnmet(campaign, kpis) ==
    \E i \in 1..Len(kpis) :
        /\ kpis[i][1] \in RecognizedKpis
        /\ Actual(campaign.performance_metrics, kpis[i][1]) < kpis[i][2]

HappyTrace ==
    <<"PENDING", "ANALYZING_BRAND", "GENERATING_CONTENT", "EXECUTING_CAMPAIGN",
      "COMPLETED">>

\* C1: with the feedback loop disabled and no agent invocation failing, the
\* values assigned to result.state are, in order and without repetition,
\* PENDING, ANALYZING_BRAND, GENERATING_CONTENT, EXECUTING_CAMPAIGN, COMPLETED:
\* at every point of the run the values so far are a prefix of that list, the
\* current state is the last of them, and the finished run has the whole list.
C1_StrictOrder ==
    (~enable_feedback_loop /\ AllSucceeded /\ pc # "idle") =>
        /\ IsPrefix(state_trace, HappyTrace)
        /\ result.state = Last(state_trace)
        /\ pc = "done" => (state_trace = HappyTrace /\ outcome.kind = "return")

C1_Witness ==
    /\ Returned
    /\ ~enable_feedback_loop
    /\ AllSucceeded
    /\ state_trace = HappyTrace

\* C2: when the retry wrapper of a stage gives up and raises, the next step
\* of execute_workflow moves the state from that stage's state directly to
\* FAILED, records the message of the raised exception, stamps completed_at
\* later than started_at, mirrors "failed" into the store and its file, and
\* raises that same exception (the last failure of the stage); no agent
\* method is invoked by that step and the run is over.
C2_StageFailure ==
    [][pc = "retry_raise" =>
        /\ Last(state_trace) = StageState[func]
        /\ state_trace' = Append(state_trace, "FAILED")
        /\ result'.state = "FAILED"
        /\ result'.error_message = Str(exc.msg)
        /\ exc = Last(op_log).exc
        /\ result'.completed_at # None
        /\ result'.completed_at.t > result.started_at.t
        /\ memory'["workflow_state"] = Str("failed")
        /\ files'[session_id']["workflow_state"] = Str("failed")
        /\ outcome' = [kind |-> "raise", exc |-> exc]
        /\ invoked' = invoked
        /\ pc' = "done"]_vars

C2_Witness ==
    /\ Raised
    /\ func = "_stage_content_generation"
    /\ Len(op_log) = DefaultMaxRetries
    /\ result.state = "FAILED"
    /\ invoked["execute_campaign"] = 0

\* C3: the wrapper returns exactly when an invocation succeeds: on return the
\* operation was invoked k+1 times for some k < max_retries, the first k
\* invocations failed, the last succeeded and its value is the value
\* returned; and the wrapper does not give up while the operation has failed
\* fewer than max_retries times.
C3_RetryThenSuccess ==
    /\ pc = "retry_return" =>
          \E k \in 0..(max_retries - 1) :
              /\ Len(op_log) = k + 1
              /\ invoked[StageMethod[func]] = k + 1
              /\ \A i \in 1..k : op_log[i].exc # None
              /\ op_log[k + 1].exc = None
              /\ retval = op_log[k + 1].value
              /\ retval # None
    /\ (op_log # <<>> /\ Last(op_log).exc = None) => pc = "retry_return"
    /\ Len(op_log) < max_retries => pc # "retry_raise"

C3_Witness ==
    /\ pc = "retry_return"
    /\ max_retries = 3
    /\ Len(op_log) = 3
    /\ retval = op_log[3].value

\* C4: the wrapper raises exactly when max_retries invocations have all
\* failed: it never invokes the operation more than max_retries times, and
\* the error it raises is the error of the last invocation.
C4_RetryExhausted ==
    /\ Len(op_log) <= max_retries
    /\ pc = "retry_raise" =>
          /\ Len(op_log) = max_retries
          /\ invoked[StageMethod[func]] = max_retries
          /\ \A i \in 1..Len(op_log) : op_log[i].exc # None
          /\ exc = op_log[max_retries].exc
    /\ (Len(op_log) = max_retries /\ \A i \in 1..Len(op_log) : op_log[i].exc # None)
          => pc = "retry_raise"

C4_Witness ==
    /\ pc = "retry_raise"
    /\ max_retries = 3
    /\ op_log[1].exc.kind = "BoundaryError"
    /\ op_log[3].exc.kind = "ParseError"
    /\ exc = op_log[3].exc

\* C5: _should_optimize returns true exactly when some entry of target_kpis
\* names roi, conversions or ctr and the measured value is strictly below
\* the entry's target.
C5_KpiPredicate ==
    pc = "kpi_return" =>
        retval = Bool(KpiUnmet(campaign_result, target_kpis))

C5_Witness ==
    /\ pc = "kpi_return"
    /\ Len(target_kpis) = 2
    /\ target_kpis[1] = <<"impressions", 2>>
    /\ target_kpis[2][1] = "conversions"
    /\ campaign_result.performance_metrics.conversions = target_kpis[2][2]
    /\ campaign_result.performance_metrics.roi = 1
    /\ retval = Bool(FALSE)

\* the first round whose campaign result met the KPIs, 0 when none did
FirstMet(met) ==
    IF \E j \in 1..Len(met) : met[j]
    THEN CHOOSE j \in 1..Len(met) : met[j] /\ \A i \in 1..(j - 1) : ~met[i]
    ELSE 0

\* C6: feedback enabled, max_iterations = N >= 1, KPIs unmet after the
\* initial run, no exception: the rounds run are N-1 when no round met the
\* KPIs and otherwise j, the first round that met them; every round begun
\* was completed, each round invoked refine, generate and execute once, and
\* the run ends COMPLETED.
C6_FeedbackRounds ==
    (/\ Returned
     /\ enable_feedback_loop
     /\ max_iterations >= 1
     /\ KpiUnmet(campaign_result, target_kpis)) =>
        /\ Len(round_met) = IF FirstMet(round_met) = 0
                            THEN max_iterations - 1
                            ELSE FirstMet(round_met)
        /\ rounds = Len(round_met)
        /\ invoked["refine_strategy"] = rounds
        /\ succeeded["generate_content"] = 1 + rounds
        /\ succeeded["execute_campaign"] = 1 + rounds
        /\ \A j \in 1..Len(round_met) :
              round_met[j] <=> (j = Len(round_met)
                                /\ ~KpiUnmet(result.campaign_result, target_kpis))
        /\ result.state = "COMPLETED"

C6_Witness ==
    /\ Returned
    /\ enable_feedback_loop
    /\ max_iterations = 3
    /\ KpiUnmet(campaign_result, target_kpis)
    /\ round_met = <<TRUE>>

\* C7: when the feedback loop is disabled, or target_kpis is empty, or the
\* initial campaign result has no recognised KPI below target, no feedback
\* round is ever begun: refine_strategy is never invoked, and a run without
\* failures returns with generate_content and execute_campaign invoked once.
C7_NoFeedback ==
    (\/ ~enable_feedback_loop
     \/ target_kpis = <<>>
     \/ (campaign_result # None /\ ~KpiUnmet(campaign_result, target_kpis))) =>
        /\ rounds = 0
        /\ invoked["refine_strategy"] = 0
        /\ pc \notin {"refine", "regenerate", "reexecute"}
        /\ (pc = "done" /\ AllSucceeded) =>
              /\ outcome.kind = "return"
              /\ invoked["generate_content"] = 1
              /\ invoked["execute_campaign"] = 1

C7_Witness ==
    /\ Returned
    /\ enable_feedback_loop
    /\ max_iterations >= 2
    /\ target_kpis # <<>>
    /\ target_kpis[1][1] \in RecognizedKpis
    /\ ~KpiUnmet(campaign_result, target_kpis)
    /\ AllSucceeded
    /\ invoked["execute_campaign"] = 1

\* C8: a run that ends with no unrecovered exception returns with state
\* COMPLETED, completed_at set and "completed" mirrored into the store,
\* whether or not the final campaign result meets the KPIs.
C8_AlwaysCompleted ==
    (pc = "done" /\ exc = None) =>
        /\ outcome.kind = "return"
        /\ result.state = "COMPLETED"
        /\ result.completed_at # None
        /\ Last(state_trace) = "COMPLETED"
        /\ GetWorkflowState(Store) = Str("completed")

C8_Witness ==
    /\ Returned
    /\ exc = None
    /\ enable_feedback_loop
    /\ rounds >= 1
    /\ rounds = max_iterations - 1
    /\ KpiUnmet(result.campaign_result, target_kpis)
    /\ result.state = "COMPLETED"

\* C9: whenever the state is COMPLETED the three stage-result fields of the
\* WorkflowResult are populated, and at any time a populated field means
\* its agent method has succeeded at least once in this run.
C9_ResultsPopulated ==
    pc # "idle" =>
        /\ result.state = "COMPLETED" =>
              /\ result.brand_analysis # None
              /\ result.content_generation # None
              /\ result.campaign_result # None
        /\ result.brand_analysis # None => succeeded["analyze_brand"] >= 1
        /\ result.content_generation # None => succeeded["generate_content"] >= 1
        /\ result.campaign_result # None => succeeded["execute_campaign"] >= 1

C9_Witness ==
    /\ pc = "done"
    /\ result.state = "COMPLETED"
    /\ rounds >= 1
    /\ result.brand_analysis # None
    /\ result.content_generation = improved_content
    /\ result.campaign_result # campaign_result

\* C10: every WorkflowResult handed back by return has state COMPLETED, and
\* a run whose state ends FAILED ends by raising, never by returning, also
\* when stage results are already populated.
C10_NoPartialReturn ==
    /\ outcome.kind = "return" => outcome.value.state = "COMPLETED"
    /\ (pc = "done" /\ result.state = "FAILED") => outcome.kind = "raise"
    /\ pc = "done" => outcome.kind \in {"return", "raise"}

C10_Witness ==
    /\ Raised
    /\ result.state = "FAILED"
    /\ result.campaign_result # None
    /\ rounds >= 1

\* the transitions of result.state that execute_workflow can make
StateEdges ==
    {<<"PENDING", "ANALYZING_BRAND">>,
     <<"ANALYZING_BRAND", "GENERATING_CONTENT">>,
     <<"GENERATING_CONTENT", "EXECUTING_CAMPAIGN">>,
     <<"EXECUTING_CAMPAIGN", "COMPLETED">>,
     <<"ANALYZING_BRAND", "FAILED">>,
     <<"GENERATING_CONTENT", "FAILED">>,
     <<"EXECUTING_CAMPAIGN", "FAILED">>}

\* C11: COMPLETED and FAILED are terminal: once result.state is one of them
\* no step of the run changes it again, nor the workflow_state mirrored in
\* the store; and every change of result.state is a forward edge of the
\* state graph or an edge into FAILED, so that FAILED is entered only from a
\* non-terminal state.  (That FAILED is reachable from each of the four
\* non-terminal states is shown by the run of C11_Witness, which passes
\* through all four and ends FAILED.)
C11_TerminalStates ==
    /\ [][(pc # "idle" /\ result.state \in {"COMPLETED", "FAILED"}) =>
            /\ result'.state = result.state
            /\ state_trace' = state_trace
            /\ GetWorkflowState(Store') = GetWorkflowState(Store)]_vars
    /\ [](\A i \in 1..(Len(state_trace) - 1) :
            <<state_trace[i], state_trace[i + 1]>> \in StateEdges)

C11_Witness ==
    /\ Raised
    /\ state_trace = <<"PENDING", "ANALYZING_BRAND", "GENERATING_CONTENT",
                       "EXECUTING_CAMPAIGN", "FAILED">>
    /\ GetWorkflowState(Store) = Str("failed")

\* the run ended with an exception raised inside a feedback round
FeedbackFailure == Raised /\ rounds >= 1

\* C12 as stated: after an exception inside a feedback round the exception
\* reaches the caller and the three stage slots of the store hold what they
\* held when the round began.
C12_SlotsAsBeforeRound ==
    FeedbackFailure =>
        /\ outcome.exc = exc
        /\ StageSlots(Store) = round_slots

\* C12 amended: after an exception inside a feedback round the exception is
\* recorded (state FAILED, "failed" in the store) and re-raised to the
\* caller; the brand_analysis and campaign_result slots hold what they held
\* when the round began; the content_generation slot does so when
\* generate_content was what failed, and holds the content regenerated in the
\* failed round when execute_campaign failed after it.
C12_FeedbackFailure ==
    FeedbackFailure =>
        /\ outcome = [kind |-> "raise", exc |-> exc]
        /\ result.state = "FAILED"
        /\ GetWorkflowState(Store) = Str("failed")
        /\ StageSlots(Store).brand_analysis = round_slots.brand_analysis
        /\ StageSlots(Store).campaign_result = round_slots.campaign_result
        /\ IF succeeded["generate_content"] = 1 + rounds
           THEN /\ StageSlots(Store).content_generation = ModelDump(improved_content)
                /\ StageSlots(Store).content_generation # round_slots.content_generation
                /\ invoked["execute_campaign"] > succeeded["execute_campaign"]
           ELSE StageSlots(Store).content_generation = round_slots.content_generation

C12_Witness ==
    /\ FeedbackFailure
    /\ rounds = 2
    /\ succeeded["generate_content"] = 3
    /\ StageSlots(Store).content_generation # round_slots.content_generation
    /\ StageSlots(Store).campaign_result = round_slots.campaign_result

\* the no-active-session error of SharedMemory.save
IsStoreError(e) == e # None /\ e.kind = "RuntimeError"

\* C13 as stated: an invocation that raises a store error is the last one,
\* and the wrapper raises that error at once.
C13_StoreErrorsNotRetried ==
    \A i \in 1..Len(op_log) :
        IsStoreError(op_log[i].exc) =>
            /\ i = Len(op_log)
            /\ pc = "retry_raise"
            /\ exc = op_log[i].exc

\* C13 amended: the wrapper treats a store error like a boundary or parse
\* error: after a failed invocation of any kind that is not the
\* max_retries-th, it backs off and invokes the operation again; only the
\* failure of the max_retries-th invocation is raised to the caller.
C13_EveryErrorRetried ==
    \A i \in 1..Len(op_log) :
        op_log[i].exc # None =>
            IF i < max_retries
            THEN i < Len(op_log) \/ pc \in {"retry_sleep", "retry_call"}
            ELSE pc = "retry_raise" /\ exc = op_log[i].exc

C13_Witness ==
    /\ pc = "retry_raise"
    /\ session_id = None
    /\ max_retries = 3
    /\ Len(op_log) = 3
    /\ \A i \in 1..3 : IsStoreError(op_log[i].exc)
    /\ invoked[StageMethod[func]] = 3

(***************************************************************************)
(* A session created and saved to by one SharedMemory, then loaded by a    *)
(* second SharedMemory constructed over the same storage path; other is    *)
(* the second instance after its load_session.                             *)
(***************************************************************************)
InitRoundTrip ==
    /\ Constructed
    /\ target_platforms = <<"LINKEDIN">>
    /\ budget = 1
    /\ args = <<>>
    /\ \E i \in {1, 2} :
        /\ session_id = PriorStores[i].store.session_id
        /\ memory = PriorStores[i].store.memory
        /\ files = PriorStores[i].store.files
        /\ saved = PriorStores[i].saved
        /\ now = PriorStores[i].now
    /\ enable_feedback_loop = TRUE
    /\ max_iterations = DefaultMaxIterations
    /\ target_kpis = <<>>
    /\ campaign_result = None
    /\ pc = "store"
    /\ func = "none"
    /\ max_retries = DefaultMaxRetries

\* SharedMemory(storage_path).load_session(id) for the id of the open session
LoadSessionFreshCall ==
    /\ pc = "store"
    /\ ncalls < MaxCalls
    /\ session_id # None
    /\ LET r == LoadSession([FreshStore EXCEPT !.files = files], session_id)
       IN /\ other' = r.store
          /\ retval' = Bool(r.ret)
    /\ exc' = None
    /\ call' = [op |-> "load_session_fresh", session_id |-> session_id]
    /\ prev_call' = call
    /\ ncalls' = ncalls + 1
    /\ now' = now + 1
    /\ UNCHANGED <<saved, taskVars, args, inv_log, round_slots, configVars, storeVars, result, pc, localVars,
                   func, max_retries, attempt, last_error, outcome, histVars>>

NextRoundTrip ==
    \/ CreateSessionCall
    \/ SaveCall
    \/ LoadSessionFreshCall

SpecRoundTrip == InitRoundTrip /\ [][NextRoundTrip]_vars

(***************************************************************************)
(* Properties of the SharedMemory operations                               *)
(***************************************************************************)
\* the step is a call of one of the operations in ops
Calls(ops) == ncalls' = ncalls + 1 /\ call'.op \in ops

NoSessionError(e) ==
    e # None /\ e.kind = "RuntimeError" /\ e.msg = ErrorText["RuntimeError"]

\* C14 as stated: save, set_workflow_state and update called on a store with
\* no open session raise the no-active-session error and leave the mapping,
\* the session id and every session file as they were
C14_NoSessionAlwaysFails ==
    [][(session_id = None /\ Calls({"save", "set_workflow_state", "update"})) =>
            /\ NoSessionError(exc')
            /\ Store' = Store]_vars

\* C14: with no open session, save, set_workflow_state and update with at
\* least one entry raise the no-active-session error, update with no entry
\* returns; in every case the mapping, the session id and every session
\* file are as they were
C14_NoSessionFails ==
    [][(session_id = None /\ Calls({"save", "set_workflow_state", "update"})) =>
            /\ IF call'.op = "update" /\ call'.updates = <<>>
               THEN exc' = None
               ELSE NoSessionError(exc')
            /\ Store' = Store]_vars

C14_Witness ==
    /\ call.op = "update"
    /\ Len(call.updates) = 2
    /\ NoSessionError(exc)
    /\ session_id = None
    /\ memory = EmptyDict
    /\ files = UsedStore.files
    /\ ncalls = 2
\* the keys whose slot differs between the mappings m1 and m2
ChangedSlots(m1, m2) ==
    {k \in DOMAIN m1 \cup DOMAIN m2 :
        \/ k \notin DOMAIN m1
        \/ k \notin DOMAIN m2
        \/ m1[k] # m2[k]}

\* a successful save writes at most the slot of its key and updated_at
SaveFrame ==
    (Calls({"save"}) /\ exc' = None) =>
        /\ ChangedSlots(memory, memory') \subseteq {call'.key, "updated_at"}
        /\ session_id' = session_id

\* C15 as stated: for every key, the slot reads back the serialized form of
\* the value last saved to it since the mapping was replaced, and a save
\* changes no slot other than its key and updated_at
C15_EveryKeyReadsBack ==
    /\ [](\A k \in DOMAIN saved : Get(Store, k, None) = saved[k])
    /\ [](call.op = "get" /\ call.key \in DOMAIN saved => retval = saved[call.key])
    /\ [][SaveFrame]_vars

\* C15: for every key other than updated_at, the slot reads back the
\* serialized form of the value last saved to it since the mapping was
\* replaced (a second save replacing the first), and a save changes no slot
\* other than its key and updated_at
C15_SaveGet ==
    /\ [](\A k \in DOMAIN saved \ {"updated_at"} : Get(Store, k, None) = saved[k])
    /\ [](call.op = "get" /\ call.key \in DOMAIN saved \ {"updated_at"} =>
                retval = saved[call.key])
    /\ [][SaveFrame]_vars

C15_Witness ==
    /\ ncalls = 3
    /\ call = [op |-> "get", key |-> "content_generation", default |-> Str("default")]
    /\ retval = SerializedForm(BrandAnalysisResult(now - 2))
    /\ retval.type = "dict"
    /\ retval.created_at = Datetime(now - 2)
    /\ Get(Store, "updated_at", None) = IsoFormat(Datetime(now - 2))
    /\ Get(Store, "brand_analysis", None) = None
\* C16: loading the open session into a second store over the same storage
\* path succeeds and yields a mapping equal to the mapping of the store that
\* created the session and saved to it
C16_RoundTrip ==
    call.op = "load_session_fresh" =>
        /\ retval = Bool(TRUE)
        /\ other.session_id = session_id
        /\ other.memory = memory
\* C17 as stated: get changes neither the mapping, the session id nor any
\* session file, and returns the value last saved for the key in the
\* current session, or the default when none was
C17_SavedOrDefault ==
    [][Calls({"get"}) =>
            /\ Store' = Store
            /\ retval' = IF call'.key \in DOMAIN saved
                         THEN saved[call'.key] ELSE call'.default]_vars

\* C17: get changes neither the mapping, the session id nor any session
\* file, and returns the current value of the key's slot: the value last
\* saved for it, else the value create_session installed or load_session
\* loaded, and the default only when the mapping has no slot for the key
C17_PureRead ==
    [][Calls({"get"}) =>
            /\ Store' = Store
            /\ retval' = CASE call'.key \in DOMAIN saved \ {"updated_at"} -> saved[call'.key]
                            [] call'.key \in DOMAIN memory \ (DOMAIN saved \ {"updated_at"}) ->
                                    memory[call'.key]
                            [] OTHER -> call'.default]_vars

\* a session just created: its installed brand_analysis slot reads None
\* whatever the default
C17_Witness ==
    /\ call = [op |-> "get", key |-> "brand_analysis", default |-> Str("default")]
    /\ retval = None
    /\ saved = EmptyDict
    /\ session_id = Str("s1")
    /\ memory = NewSessionMemory(session_id, now - 2)
    /\ files[session_id] = JsonDump(memory)
\* C18: load_session for an id that has no session file returns False
\* without raising and leaves the session id, the mapping and the files as
\* they were
C18_LoadMissing ==
    [][(Calls({"load_session"}) /\ call'.session_id \notin DOMAIN files) =>
            /\ retval' = Bool(FALSE)
            /\ exc' = None
            /\ session_id' = session_id
            /\ memory' = memory
            /\ files' = files]_vars

\* the open, written-to session stays open after a failed load
C18_Witness ==
    /\ call = [op |-> "load_session", session_id |-> Str("s2")]
    /\ retval = Bool(FALSE)
    /\ ncalls = 1
    /\ Store = UsedStore

\* C19: whatever the store held, create_session leaves a new session open
\* whose stage-result slots read None, whose message log is empty, whose
\* workflow_state is pending and whose mapping is the content of its file
C19_NewEmptySession ==
    [][Calls({"create_session"}) =>
            /\ exc' = None
            /\ session_id' # None
            /\ retval' = session_id'
            /\ call'.session_id # None => session_id' = call'.session_id
            /\ \A slot \in {"brand_analysis", "content_generation", "campaign_result"} :
                    Get(Store', slot, None) = None
            /\ StageSlots(Store') = [brand_analysis |-> None,
                                     content_generation |-> None,
                                     campaign_result |-> None]
            /\ Get(Store', "messages", None) = List(<<>>)
            /\ Get(Store', "workflow_state", None) = Str("pending")
            /\ session_id' \in DOMAIN files'
            /\ files'[session_id'] = JsonDump(memory')
            /\ JsonLoad(files'[session_id']) = memory']_vars

\* create_session called on the store with a saved brand analysis, a logged
\* message and a non-pending workflow state
C19_Witness ==
    /\ call = [op |-> "create_session", session_id |-> None]
    /\ ncalls = 1
    /\ now = 6
    /\ session_id = GeneratedSessionId(5)
    /\ files[Str("s1")] = UsedStore.files[Str("s1")]
    /\ UsedStore.memory["workflow_state"] = Str("analyzing_brand")
    /\ UsedStore.memory["brand_analysis"] # None
    /\ Len(UsedStore.memory["messages"].items) = 1
    /\ memory = NewSessionMemory(session_id, 5)
\* C20: at every point of a workflow run get_workflow_status reports a stage
\* result as present exactly when its stage method has returned at least
\* once in this session, and as state the workflow state last entered
\* (pending before any)
C20_WorkflowStatus ==
    LET status == GetWorkflowStatus(Store)
    IN /\ status.brand_analysis = (succeeded["analyze_brand"] >= 1)
       /\ status.content_generation = (succeeded["generate_content"] >= 1)
       /\ status.campaign_result = (succeeded["execute_campaign"] >= 1)
       /\ status.session_id = session_id
       /\ status.state = IF state_trace = <<>> THEN Str("pending")
                         ELSE Str(WorkflowState[Last(state_trace)])

\* two stages done and the third failing its first attempt
C20_Witness ==
    /\ GetWorkflowStatus(Store) =
            [state |-> Str("executing_campaign"), session_id |-> session_id,
             brand_analysis |-> TRUE, content_generation |-> TRUE,
             campaign_result |-> FALSE]
    /\ invoked["execute_campaign"] = 1
    /\ succeeded["execute_campaign"] = 0
    /\ pc = "retry_sleep"
(***************************************************************************)
(* Properties of the backoff, the mirrored state and the stage results     *)
(***************************************************************************)
RECURSIVE SumSeq(_)
SumSeq(q) == IF q = <<>> THEN 0 ELSE q[1] + SumSeq(Tail(q))

\* the invocations of the wrapped operation that have failed so far
Failures == {i \in 1..Len(op_log) : op_log[i].exc # None}

\* C21: the i-th wait of the wrapper lasts 2^(i-1) time units and follows
\* the failure of attempt i-1; every failed attempt but the last allowed one
\* is followed by a wait before the next invocation, the last one by none;
\* with max_retries = 3 an operation that always fails waits 1 then 2
C21_Backoff ==
    /\ \A i \in 1..Len(sleeps) : sleeps[i] = 2 ^ (i - 1) /\ i \in Failures
    /\ Len(sleeps) <= max_retries - 1
    /\ pc = "retry_call" => Len(sleeps) = Len(op_log) /\ attempt = Len(op_log)
    /\ pc = "retry_sleep" => /\ Len(sleeps) = Len(op_log) - 1
                             /\ attempt = Len(op_log) - 1
                             /\ attempt < max_retries - 1
    /\ pc = "retry_return" => Len(sleeps) = Len(op_log) - 1
    /\ pc = "retry_raise" => /\ Len(sleeps) = max_retries - 1
                             /\ SumSeq(sleeps) = 2 ^ (max_retries - 1) - 1
    /\ now = 1 + Len(op_log) + SumSeq(sleeps)
    /\ (pc = "retry_raise" /\ max_retries = 3) => sleeps = <<1, 2>> /\ SumSeq(sleeps) = 3

C21_Witness ==
    /\ pc = "retry_raise"
    /\ max_retries = 3
    /\ Len(op_log) = 3
    /\ sleeps = <<1, 2>>
    /\ now = 7
\* the workflow_state slot, in memory and in the session file, holds the
\* string value of the WorkflowResult's state
Mirrored ==
    /\ result # None
    /\ Get(Store, "workflow_state", None) = Str(WorkflowState[result.state])
    /\ session_id \in DOMAIN files
    /\ files[session_id]["workflow_state"] = Str(WorkflowState[result.state])

\* the step invokes the operation the retry wrapper was handed
WrappedInvocation ==
    /\ pc = "retry_call"
    /\ invoked'[StageMethod[func]] = invoked[StageMethod[func]] + 1

\* C22: at every invocation of a retry-wrapped stage, and when
\* execute_workflow has returned or raised, the store's workflow_state slot
\* equals the string value of the WorkflowResult's state
C22_StateMirrored ==
    /\ [][WrappedInvocation =>
            /\ Mirrored
            /\ result.state = StageState[func]
            /\ Get(Store', "workflow_state", None) = Str(WorkflowState[result'.state])]_vars
    /\ [](pc = "done" => Mirrored)
    /\ [](Returned => GetWorkflowState(Store) = Str("completed"))
    /\ [](Raised => GetWorkflowState(Store) = Str("failed"))

C22_Witness ==
    /\ pc = "retry_sleep"
    /\ func = "_stage_content_generation"
    /\ Len(op_log) = 2
    /\ Mirrored
    /\ result.state = "GENERATING_CONTENT"
    /\ memory["workflow_state"] = Str("generating_content")
\* the slot of the store holds the serialized form of the result v, when
\* there is one
SlotHolds(slot, v) == v # None => Get(Store, slot, None) = SerializedForm(v)

\* the step is an invocation of an agent method that fails
FailedInvocation ==
    \E m \in {"analyze_brand", "generate_content", "execute_campaign"} :
        invoked'[m] = invoked[m] + 1 /\ succeeded'[m] = succeeded[m]

\* C23 as stated: every stage result the orchestrator holds, in the
\* WorkflowResult or as the value its retry wrapper returned, is the result
\* whose serialized form the stage's slot holds; a failing attempt writes
\* to no stage slot
C23_HeldResultsInSlots ==
    /\ [](pc = "retry_return" => SlotHolds(SlotOf[StageMethod[func]], retval))
    /\ [](result # None =>
            /\ SlotHolds("brand_analysis", result.brand_analysis)
            /\ SlotHolds("content_generation", result.content_generation)
            /\ SlotHolds("campaign_result", result.campaign_result))
    /\ [][FailedInvocation => StageSlots(Store') = StageSlots(Store)]_vars

\* C23: the value the retry wrapper returns is the result whose serialized
\* form the stage's slot holds, each slot holds the result its stage
\* returned last (the regenerated content once a feedback round has
\* produced it, the WorkflowResult's content otherwise), and a failing
\* attempt writes to no stage slot
C23_LastResultInSlot ==
    /\ [](pc = "retry_return" =>
            /\ retval # None
            /\ SlotHolds(SlotOf[StageMethod[func]], retval))
    /\ [](result # None =>
            /\ SlotHolds("brand_analysis", result.brand_analysis)
            /\ SlotHolds("brand_analysis", brand_analysis)
            /\ IF improved_content # None
               THEN SlotHolds("content_generation", improved_content)
               ELSE /\ SlotHolds("content_generation", result.content_generation)
                    /\ SlotHolds("content_generation", content_generation)
            /\ SlotHolds("campaign_result", result.campaign_result)
            /\ Returned => SlotHolds("content_generation", result.content_generation))
    /\ [](\A m \in DOMAIN SlotOf :
            (succeeded[m] >= 1) = (Get(Store, SlotOf[m], None) # None))
    /\ [][FailedInvocation => StageSlots(Store') = StageSlots(Store)]_vars

\* a retried stage handed over its result, and a feedback round has
\* regenerated the content
C23_Witness ==
    /\ pc = "reexecute"
    /\ invoked["analyze_brand"] = 2
    /\ succeeded["analyze_brand"] = 1
    /\ Get(Store, "brand_analysis", None) = SerializedForm(brand_analysis)
    /\ Get(Store, "content_generation", None) = SerializedForm(improved_content)
    /\ Get(Store, "content_generation", None) # SerializedForm(result.content_generation)
    /\ Get(Store, "campaign_result", None) = SerializedForm(campaign_result)
\* the invocations of method m before the i-th invocation of the run
Earlier(m, i) == {j \in 1..(i - 1) : inv_log[j].method = m}

Max(S) == CHOOSE x \in S : \A y \in S : y <= x

\* the i-th invocation was handed, as its k-th stage result, the value the
\* latest earlier invocation of m returned
HandedLatest(i, k, m) ==
    /\ Earlier(m, i) # {}
    /\ inv_log[Max(Earlier(m, i))].value # None
    /\ inv_log[i].args[k] = inv_log[Max(Earlier(m, i))].value

\* C24: every step makes at most one agent method invocation, which has
\* finished when the next one is made; generate_content is only invoked
\* after analyze_brand has returned and is handed that brand analysis;
\* execute_campaign is only invoked after generate_content has returned
\* and is handed that content and the brand analysis
C24_Sequential ==
    /\ [](\A i \in 1..Len(inv_log) :
            /\ inv_log[i].method = "generate_content" =>
                    /\ HandedLatest(i, 1, "analyze_brand")
                    /\ inv_log[i].args[1] = brand_analysis
            /\ inv_log[i].method = "execute_campaign" =>
                    /\ HandedLatest(i, 1, "generate_content")
                    /\ HandedLatest(i, 2, "analyze_brand")
                    /\ inv_log[i].args[2] = brand_analysis)
    /\ [](Len(inv_log) = invoked["analyze_brand"] + invoked["generate_content"]
                          + invoked["execute_campaign"] + invoked["refine_strategy"])
    /\ [](succeeded["analyze_brand"] <= 1)
    /\ [][Len(inv_log') \in {Len(inv_log), Len(inv_log) + 1}
            /\ IsPrefix(inv_log, inv_log')]_vars

\* a retried content generation, then a campaign execution
C24_Witness ==
    /\ Len(inv_log) = 4
    /\ inv_log[1].method = "analyze_brand"
    /\ inv_log[2].method = "generate_content" /\ inv_log[2].value = None
    /\ inv_log[3].method = "generate_content" /\ inv_log[3].args = <<inv_log[1].value>>
    /\ inv_log[4].method = "execute_campaign"
    /\ inv_log[4].args = <<inv_log[3].value, inv_log[1].value>>
\* the invocations the initial pipeline made of agent method m: those
\* before the first refine_strategy
PipelineInvocations(m) ==
    {i \in 1..Len(inv_log) :
        /\ inv_log[i].method = m
        /\ \A j \in 1..i : inv_log[j].method # "refine_strategy"}

InWrapper == pc \in {"retry_call", "retry_sleep", "retry_return", "retry_raise"}

\* C25: each top-level stage gets its own wrapper call with bound 3: the
\* wrapper gives up, and the workflow fails in that stage, exactly when the
\* stage's three invocations all failed, whatever earlier stages used up;
\* every attempt invokes the stage anew with the same arguments; a stage
\* that was reached is invoked between once and three times
C25_PerStageRetry ==
    /\ InWrapper =>
        /\ max_retries = DefaultMaxRetries
        /\ Len(op_log) <= DefaultMaxRetries
        /\ Len(op_log) = Cardinality(PipelineInvocations(StageMethod[func]))
        /\ (pc = "retry_raise") =
                (Len(op_log) = DefaultMaxRetries /\ \A i \in 1..Len(op_log) : op_log[i].exc # None)
        /\ pc = "retry_call" => attempt = Len(op_log)
        /\ pc # "retry_call" => Len(op_log) >= 1
        /\ \A i \in PipelineInvocations(StageMethod[func]) :
                inv_log[i].args = StageCallArgs(func, args)
    /\ (Raised /\ rounds = 0) =>
        /\ Len(op_log) = DefaultMaxRetries
        /\ \A i \in 1..Len(op_log) : op_log[i].exc # None
        /\ state_trace[Len(state_trace) - 1] = StageState[func]
        /\ outcome.exc = op_log[DefaultMaxRetries].exc
    /\ \A f \in StageFuncs :
        LET n == Cardinality(PipelineInvocations(StageMethod[f]))
            reached == \E i \in 1..Len(state_trace) : state_trace[i] = StageState[f]
        IN /\ n <= DefaultMaxRetries
           /\ ~reached => n = 0
           /\ (reached /\ ~(InWrapper /\ func = f /\ pc = "retry_call" /\ attempt = 0)) => n >= 1
           /\ (Returned \/ rounds >= 1) => n >= 1 /\ succeeded[StageMethod[f]] >= 1

\* stage 1 used two failed attempts, stage 2 none, stage 3 all three
C25_Witness ==
    /\ Raised
    /\ rounds = 0
    /\ func = "_stage_campaign_execution"
    /\ Cardinality(PipelineInvocations("analyze_brand")) = 3
    /\ Cardinality(PipelineInvocations("generate_content")) = 1
    /\ Cardinality(PipelineInvocations("execute_campaign")) = 3
    /\ Len(inv_log) = 7
Min(S) == CHOOSE x \in S : \A y \in S : x <= y

\* the invocations made from the first refine_strategy on
FeedbackInvocations ==
    LET first == {i \in 1..Len(inv_log) : inv_log[i].method = "refine_strategy"}
    IN IF first = {} THEN <<>>
       ELSE SubSeq(inv_log, Min(first), Len(inv_log))

RoundOrder == <<"refine_strategy", "generate_content", "execute_campaign">>

\* C26: the feedback loop invokes refine_strategy, generate_content and
\* execute_campaign once each per round, in that order; an invocation that
\* fails is the last of the run, which ends FAILED raising that failure
C26_NoRetryInFeedback ==
    LET fb == FeedbackInvocations
    IN /\ \A i \in 1..Len(fb) : fb[i].method = RoundOrder[((i - 1) % 3) + 1]
       /\ rounds = (Len(fb) + 2) \div 3
       /\ invoked["refine_strategy"] = rounds
       /\ \A i \in 1..Len(fb) :
            fb[i].value = None =>
                /\ i = Len(fb)
                /\ pc \in {"except", "done"}
                /\ exc # None
                /\ pc = "done" =>
                        /\ Raised
                        /\ outcome.exc = exc
                        /\ result.state = "FAILED"
                        /\ Last(state_trace) = "FAILED"

\* the second round fails in execute_campaign
C26_Witness ==
    /\ Raised
    /\ rounds = 2
    /\ Len(FeedbackInvocations) = 6
    /\ FeedbackInvocations[6].method = "execute_campaign"
    /\ FeedbackInvocations[6].value = None
    /\ FeedbackInvocations[3].value # None
(***************************************************************************)
(* Properties of persistence and of the message log                        *)
(***************************************************************************)
Mutations ==
    {"create_session", "save", "update", "set_workflow_state", "append_message", "clear"}

\* the file of the open session holds the mapping as json.dump writes it
PersistedNow(st) ==
    /\ st.session_id \in DOMAIN st.files
    /\ st.files[st.session_id] = JsonDump(st.memory)

\* C27 as stated: after each create_session, save, update,
\* set_workflow_state, append_message or clear that completes on a store
\* with an open session, the file of the current session holds the
\* serialized in-memory mapping
C27_PersistedAfterEveryCall ==
    [][(Calls(Mutations) /\ exc' = None /\ session_id' # None) =>
            PersistedNow(Store')]_vars

\* C27: the same, for update only when it is given at least one entry
C27_Persisted ==
    [][(/\ Calls(Mutations)
        /\ exc' = None
        /\ session_id' # None
        /\ ~(call'.op = "update" /\ call'.updates = <<>>)) =>
            PersistedNow(Store')]_vars

\* a second message appended to the written-to session: the file holds the
\* mapping with its datetimes written as strings
C27_Witness ==
    /\ call.op = "append_message"
    /\ session_id = Str("s1")
    /\ Len(GetMessages(Store).items) = 2
    /\ PersistedNow(Store)
    /\ files[session_id] # memory
    /\ files[session_id]["brand_analysis"].created_at = StrOfDatetime(Datetime(2))
\* the step is a call that replaces the session of the store by another
SwitchesSession ==
    \/ Calls({"create_session"})
    \/ Calls({"load_session"}) /\ retval' = Bool(TRUE)

AppendedTo(log, message) ==
    /\ log.type = "list"
    /\ GetMessages(Store') = List(Append(log.items, SerializedForm(message)))

\* C28 as stated: within one session a successful append_message adds its
\* message at the end of the log get_messages reads, and no other operation
\* changes the log
C28_OnlyAppendChangesLog ==
    [][(ncalls' = ncalls + 1 /\ ~SwitchesSession) =>
            IF call'.op = "append_message" /\ exc' = None
            THEN AppendedTo(GetMessages(Store), call'.message)
            ELSE GetMessages(Store') = GetMessages(Store)]_vars

\* C28: within one session a successful append_message adds its message at
\* the end of the log get_messages reads; clear on an open session empties
\* the log and a save under the key messages replaces it, after which
\* append_message fails and changes nothing; no other operation changes
\* the log
C28_AppendOnlyLog ==
    [][(ncalls' = ncalls + 1 /\ ~SwitchesSession) =>
            CASE call'.op = "append_message" /\ exc' = None ->
                    AppendedTo(GetMessages(Store), call'.message)
              [] call'.op = "append_message" /\ exc' # None ->
                    /\ GetMessages(Store).type # "list"
                    /\ exc'.kind = "AttributeError"
                    /\ Store' = Store
              [] call'.op = "clear" /\ session_id # None ->
                    /\ "messages" \notin DOMAIN memory'
                    /\ GetMessages(Store') = List(<<>>)
              [] call'.op = "save" /\ call'.key = "messages" /\ exc' = None ->
                    GetMessages(Store') = SerializedForm(call'.value)
              [] OTHER -> GetMessages(Store') = GetMessages(Store)]_vars

\* two messages appended to the logged one, a save in between
C28_Witness ==
    /\ call.op = "append_message"
    /\ exc = None
    /\ ncalls = 3
    /\ "content_generation" \in DOMAIN saved
    /\ Len(GetMessages(Store).items) = 3
    /\ GetMessages(Store).items[1].timestamp = Datetime(4)
    /\ GetMessages(Store).items[2].timestamp = Datetime(5)
    /\ GetMessages(Store).items[3].timestamp = Datetime(7)
(***************************************************************************)
(* Termination                                                             *)
(***************************************************************************)
PipelineTotal ==
    Cardinality(PipelineInvocations("analyze_brand"))
    + Cardinality(PipelineInvocations("generate_content"))
    + Cardinality(PipelineInvocations("execute_campaign"))

\* C29: a call of execute_workflow whose awaited calls and sleeps all
\* finish ends with the state COMPLETED or FAILED, having made at most 9
\* stage invocations in the initial pipeline and at most max_iterations - 1
\* feedback rounds
C29_Terminates ==
    /\ [](PipelineTotal <= 3 * DefaultMaxRetries)
    /\ [](rounds <= IF max_iterations >= 1 THEN max_iterations - 1 ELSE 0)
    /\ [](pc = "done" => result.state \in {"COMPLETED", "FAILED"})
    /\ (pc = "try") ~> (pc = "done" /\ result.state \in {"COMPLETED", "FAILED"})

\* nine pipeline invocations, then every feedback round the budget allows
C29_Witness ==
    /\ Returned
    /\ result.state = "COMPLETED"
    /\ PipelineTotal = 9
    /\ max_iterations = MaxLiveIterations
    /\ rounds = max_iterations - 1
    /\ rounds >= 1
(***************************************************************************)
(* Cancellation                                                            *)
(***************************************************************************)
\* C30: cancelling the run during a backoff sleep ends it with
\* CancelledError and changes nothing in the store: the slots of the stages
\* completed before are in memory and in the session file, and
\* workflow_state stays the state of the interrupted stage, not failed;
\* nothing runs afterwards
C30_CancelKeepsStore ==
    /\ [][(pc = "retry_sleep" /\ pc' \notin {"retry_call", "retry_raise"}) =>
            /\ pc' = "cancelled"
            /\ Store' = Store
            /\ result' = result]_vars
    /\ [][pc # "cancelled"]_vars
    /\ [](pc = "cancelled" =>
            /\ outcome.kind = "raise"
            /\ outcome.exc.kind = "CancelledError"
            /\ result.state = StageState[func]
            /\ GetWorkflowState(Store) = Str(WorkflowState[StageState[func]])
            /\ GetWorkflowState(Store) # Str("failed")
            /\ PersistedNow(Store)
            /\ SlotHolds("brand_analysis", brand_analysis)
            /\ SlotHolds("content_generation", content_generation)
            /\ \A m \in DOMAIN SlotOf :
                    (succeeded[m] >= 1) =
                        (SlotOf[m] \in DOMAIN files[session_id]
                         /\ files[session_id][SlotOf[m]] # None))

\* cancelled in the second backoff of campaign execution
C30_Witness ==
    /\ pc = "cancelled"
    /\ func = "_stage_campaign_execution"
    /\ attempt = 1
    /\ Len(sleeps) = 1
    /\ memory["workflow_state"] = Str("executing_campaign")
    /\ files[session_id]["brand_analysis"] = JsonItem(SerializedForm(brand_analysis))
    /\ files[session_id]["content_generation"] = JsonItem(SerializedForm(content_generation))
    /\ "campaign_result" \notin DOMAIN memory
(***************************************************************************)
(* Properties of the feedback rounds                                       *)
(***************************************************************************)
\* the invocations of method m that returned a result
Successes(m) == {i \in 1..Len(inv_log) : inv_log[i].method = m /\ inv_log[i].value # None}

\* C31: every refine_strategy invocation, in the first round and in later
\* ones, is handed the brand analysis and the campaign result (for its
\* optimization feedback) of the initial pipeline; the analysis it returns
\* is that same analysis, so from round to round only the regenerated
\* content and the campaign result differ
C31_RefineFromInitialRun ==
    \A i \in 1..Len(inv_log) :
        inv_log[i].method = "refine_strategy" =>
            /\ PipelineInvocations("analyze_brand") \cap Successes("analyze_brand") # {}
            /\ PipelineInvocations("execute_campaign") \cap Successes("execute_campaign") # {}
            /\ inv_log[i].args[1] =
                 inv_log[Max(PipelineInvocations("analyze_brand"))].value
            /\ inv_log[i].args[2] =
                 inv_log[Max(PipelineInvocations("execute_campaign"))].value
            /\ inv_log[i].args = <<brand_analysis, campaign_result>>
            /\ inv_log[i].value = inv_log[i].args[1]
            /\ \A j \in i + 1..Len(inv_log) :
                 /\ inv_log[j].method = "generate_content" =>
                        inv_log[j].args = <<brand_analysis>>
                 /\ inv_log[j].method = "execute_campaign" =>
                        /\ inv_log[j].args[2] = brand_analysis
                        /\ inv_log[j].args[1] = inv_log[j - 1].value
                        /\ inv_log[j].args[1] # content_generation

\* the second round has refined: the first round's campaign result is in
\* the WorkflowResult, and refine_strategy was handed the initial one
C31_Witness ==
    /\ pc = "regenerate"
    /\ rounds = 2
    /\ Len(inv_log) = 7
    /\ inv_log[7].method = "refine_strategy"
    /\ inv_log[7].args[2] = inv_log[3].value
    /\ result.campaign_result = inv_log[6].value
    /\ result.campaign_result # inv_log[7].args[2]
    /\ result.content_generation # content_generation
\* the content and the campaign result the WorkflowResult held when feedback
\* round k began: those of round k - 1, or of the initial pipeline
HeldBeforeRound(k) ==
    IF k = 1 THEN <<content_generation, campaign_result>>
    ELSE <<FeedbackInvocations[3 * (k - 1) - 1].value,
           FeedbackInvocations[3 * (k - 1)].value>>

\* the feedback round in progress, or the one that failed, has not yet
\* (or never) returned from execute_campaign
RoundUnfinished == rounds >= 1 /\ Len(round_met) < rounds

\* C32: whenever the WorkflowResult holds a campaign result, that result
\* came from an execute_campaign invocation handed the content the
\* WorkflowResult holds; until a round's execute_campaign has returned the
\* WorkflowResult holds the results of the round before; a round that fails
\* in execute_campaign leaves the WorkflowResult with the previous round's
\* results and the store's content_generation slot with its own content
C32_ResultUpdatedAtRoundEnd ==
    /\ (result # None /\ result.campaign_result # None) =>
            \E j \in Successes("execute_campaign") :
                /\ inv_log[j].value = result.campaign_result
                /\ inv_log[j].args[1] = result.content_generation
                /\ inv_log[j].args[2] = result.brand_analysis
    /\ RoundUnfinished =>
            /\ result.content_generation = HeldBeforeRound(rounds)[1]
            /\ result.campaign_result = HeldBeforeRound(rounds)[2]
            /\ SlotHolds("campaign_result", result.campaign_result)
    /\ (RoundUnfinished /\ Len(FeedbackInvocations) = 3 * rounds) =>
            /\ Last(FeedbackInvocations).value = None
            /\ pc \in {"except", "done"}
            /\ pc = "done" => Raised
            /\ improved_content = FeedbackInvocations[3 * rounds - 1].value
            /\ improved_content # result.content_generation
            /\ Get(Store, "content_generation", None) = SerializedForm(improved_content)
            /\ Get(Store, "content_generation", None) #
                    SerializedForm(result.content_generation)

\* the second round failed in execute_campaign: the WorkflowResult has the
\* first round's results, the store has the second round's content
C32_Witness ==
    /\ Raised
    /\ rounds = 2
    /\ Len(FeedbackInvocations) = 6
    /\ FeedbackInvocations[6].value = None
    /\ result.content_generation = FeedbackInvocations[2].value
    /\ result.campaign_result = FeedbackInvocations[3].value
    /\ Get(Store, "content_generation", None) = SerializedForm(FeedbackInvocations[5].value)
(***************************************************************************)
(* The states a run enters                                                 *)
(***************************************************************************)
EnteredStates ==
    {"PENDING", "ANALYZING_BRAND", "GENERATING_CONTENT", "EXECUTING_CAMPAIGN",
     "COMPLETED", "FAILED"}

\* C33: WorkflowState declares PLANNING_CAMPAIGN, but no run enters it: the
\* state of the WorkflowResult, every value it was ever assigned, and the
\* store's workflow_state are always among pending, analyzing_brand,
\* generating_content, executing_campaign, completed and failed
C33_PlanningNeverEntered ==
    /\ "PLANNING_CAMPAIGN" \in DOMAIN WorkflowState \ EnteredStates
    /\ result # None => result.state \in EnteredStates
    /\ \A i \in 1..Len(state_trace) : state_trace[i] \in EnteredStates
    /\ GetWorkflowState(Store) \in {Str(WorkflowState[s]) : s \in EnteredStates}
    /\ GetWorkflowState(Store) # Str(WorkflowState["PLANNING_CAMPAIGN"])
    /\ \A sid \in DOMAIN files :
         files[sid]["workflow_state"] \in {Str(WorkflowState[s]) : s \in EnteredStates}

\* a run that went from generating content straight to executing the
\* campaign, and completed
C33_Witness ==
    /\ Returned
    /\ state_trace = <<"PENDING", "ANALYZING_BRAND", "GENERATING_CONTENT",
                       "EXECUTING_CAMPAIGN", "COMPLETED">>
    /\ GetWorkflowState(Store) = Str("completed")
    /\ invoked["execute_campaign"] = 2
(***************************************************************************)
(* Properties of campaign execution under the WorkflowInput                *)
(***************************************************************************)
Targets(p) == \E i \in 1..Len(target_platforms) : target_platforms[i] = p

InStage3 == func = "_stage_campaign_execution"

\* stage 3 was invoked three times, each invocation raising an error of
\* the given kind, and the run ended FAILED with that error: the slots of
\* stages 1 and 2 are populated, in memory and in the session file, and
\* there is no campaign result
Stage3FailedWith(kind) ==
    /\ Raised
    /\ InStage3
    /\ rounds = 0
    /\ invoked["execute_campaign"] = DefaultMaxRetries
    /\ succeeded["execute_campaign"] = 0
    /\ Len(op_log) = DefaultMaxRetries
    /\ \A i \in 1..Len(op_log) : op_log[i].exc # None /\ op_log[i].exc.kind = kind
    /\ outcome.exc.kind = kind
    /\ Len(sleeps) >= 2
    /\ SubSeq(sleeps, Len(sleeps) - 1, Len(sleeps)) = <<WaitTime(0), WaitTime(1)>>
    /\ result.state = "FAILED"
    /\ result.error_message = Str(ErrorText[kind])
    /\ result.campaign_result = None
    /\ GetWorkflowState(Store) = Str("failed")
    /\ brand_analysis # None /\ content_generation # None
    /\ Get(Store, "brand_analysis", None) = SerializedForm(brand_analysis)
    /\ Get(Store, "content_generation", None) = SerializedForm(content_generation)
    /\ files[session_id]["brand_analysis"] = JsonItem(SerializedForm(brand_analysis))
    /\ files[session_id]["content_generation"] = JsonItem(SerializedForm(content_generation))
    /\ "campaign_result" \notin DOMAIN memory
    /\ "campaign_result" \notin DOMAIN files[session_id]

\* stage 2 has just returned, or stage 3 is being attempted or has been
\* given up
Stage3Failing ==
    \/ pc = "retry_return" /\ func = "_stage_content_generation"
    \/ InStage3 /\ pc \in {"retry_call", "retry_sleep", "retry_raise", "done"}

\* C34: channel_benchmarks has no entry for TWITTER; when TWITTER is among
\* the target platforms and stages 1 and 2 succeeded, no invocation of
\* execute_campaign returns, and the run ends FAILED with KeyError after
\* exactly three invocations of stage 3, the brand_analysis and
\* content_generation slots populated and no campaign result
C34_TwitterFailsCampaign ==
    /\ "TWITTER" \in Platform \ BenchmarkedChannels
    /\ (Targets("TWITTER") /\ succeeded["generate_content"] >= 1) =>
            /\ succeeded["execute_campaign"] = 0
            /\ campaign_result = None
            /\ Stage3Failing
            /\ InStage3 =>
                    \A i \in 1..Len(op_log) :
                        op_log[i].exc # None /\ op_log[i].exc.kind = "KeyError"
            /\ pc = "retry_call" => ~ENABLED RetryAttemptReturns
            /\ pc = "done" => Stage3FailedWith("KeyError")

\* LinkedIn and Twitter targeted: the run failed in stage 3
C34_Witness ==
    /\ target_platforms = <<"LINKEDIN", "TWITTER">>
    /\ budget = 1
    /\ Stage3FailedWith("KeyError")
    /\ invoked["analyze_brand"] = 1
    /\ invoked["generate_content"] = 1

\* C35: WorkflowInput accepts budget 0; with at least one benchmarked
\* target platform and stages 1 and 2 succeeded, no invocation of
\* execute_campaign returns and the run ends FAILED after exactly three
\* invocations of stage 3: the normalisation divides by a total allocation
\* of 0 (ZeroDivisionError) whenever it is reached, that is when every
\* target platform is benchmarked.  With no target platform the same budget
\* lets execute_campaign return: it fails only when the text-generation
\* boundary fails
C35_ZeroBudgetFailsCampaign ==
    /\ 0 \in 0..MaxBudget
    /\ (budget = 0 /\ (\E p \in BenchmarkedChannels : Targets(p))
            /\ succeeded["generate_content"] >= 1) =>
            /\ succeeded["execute_campaign"] = 0
            /\ campaign_result = None
            /\ Stage3Failing
            /\ pc = "retry_call" => ~ENABLED RetryAttemptReturns
            /\ pc = "done" =>
                    Stage3FailedWith(IF Targets("TWITTER") THEN "KeyError"
                                     ELSE "ZeroDivisionError")
    /\ (budget = 0 /\ target_platforms = <<>> /\ InStage3) =>
            /\ \A i \in 1..Len(op_log) :
                    op_log[i].exc # None => op_log[i].exc.kind \in StageErrors
            /\ pc = "retry_call" => ENABLED RetryAttemptReturns

\* email targeted with budget 0: the run failed in stage 3, dividing by 0
C35_Witness ==
    /\ target_platforms = <<"EMAIL">>
    /\ budget = 0
    /\ Stage3FailedWith("ZeroDivisionError")
    /\ TotalAllocated(Channels(AssetPlatforms(target_platforms)), budget) = 0
(***************************************************************************)
(* Properties of small iteration budgets                                   *)
(***************************************************************************)
\* C36: with max_iterations 1, 0 or negative the feedback loop runs no
\* round, even when it is enabled and the campaign result misses a target:
\* refine_strategy is never invoked, and once stage 3 has returned the run
\* can only complete, returning a COMPLETED WorkflowResult that holds the
\* results of the three stages
C36_NoRoundsBelowTwo ==
    max_iterations <= 1 =>
        /\ rounds = 0
        /\ round_met = <<>>
        /\ iteration = 0
        /\ invoked["refine_strategy"] = 0
        /\ pc \notin {"refine", "regenerate", "reexecute"}
        /\ \A i \in 1..Len(inv_log) : i \in PipelineInvocations(inv_log[i].method)
        /\ campaign_result # None =>
            /\ pc \in {"complete", "done"}
            /\ result.brand_analysis = brand_analysis
            /\ result.content_generation = content_generation
            /\ result.campaign_result = campaign_result
            /\ pc = "complete" => ENABLED CompleteWorkflow
            /\ pc = "done" =>
                /\ Returned
                /\ outcome.value = result
                /\ result.state = "COMPLETED"
                /\ Last(state_trace) = "COMPLETED"
                /\ GetWorkflowState(Store) = Str("completed")

\* a negative max_iterations, the loop enabled and the roi target missed:
\* the run completed with the initial results
C36_Witness ==
    /\ max_iterations = 0 - 1
    /\ enable_feedback_loop
    /\ Returned
    /\ target_kpis = <<<<"roi", 2>>>>
    /\ campaign_result.performance_metrics.roi = 1
    /\ ShouldOptimize(campaign_result, target_kpis)
    /\ result.state = "COMPLETED"
    /\ result.campaign_result = campaign_result
(***************************************************************************)
(* Properties of delete_session and of the calls on a store with no        *)
(* session                                                                 *)
(***************************************************************************)
\* the last call deleted the file of the session that is open
DeletedOpenSession ==
    /\ call.op = "delete_session"
    /\ retval = Bool(TRUE)
    /\ session_id # None
    /\ call.session_id = session_id

\* C37: delete_session(id) returns true exactly when a file for id
\* existed, removes that file and no other, and leaves the open session
\* and the in-memory mapping as they were, also when id is the open
\* session; the next save or set_workflow_state then writes the file of
\* the deleted session again, and list_sessions lists it
C37_DeleteKeepsSessionOpen ==
    /\ [][Calls({"delete_session"}) =>
            /\ exc' = None
            /\ retval' = Bool(call'.session_id \in ListSessions(Store))
            /\ ListSessions(Store') = ListSessions(Store) \ {call'.session_id}
            /\ \A f \in ListSessions(Store') : files'[f] = files[f]
            /\ session_id' = session_id
            /\ memory' = memory]_vars
    /\ [](DeletedOpenSession => session_id \notin ListSessions(Store))
    /\ [][(DeletedOpenSession /\ Calls({"save", "set_workflow_state"})) =>
            /\ exc' = None
            /\ session_id' = session_id
            /\ session_id \in ListSessions(Store')
            /\ PersistedNow(Store')
            /\ ListSessions(Store') = ListSessions(Store) \cup {session_id}
            /\ \A k \in DOMAIN memory \ {"updated_at"} :
                    /\ k \in DOMAIN memory'
                    /\ k # (IF call'.op = "save" THEN call'.key ELSE "workflow_state")
                            => memory'[k] = memory[k]]_vars

\* the written-to session was deleted while open, then saved to: its file
\* is back, with the message logged before the deletion
C37_Witness ==
    /\ prev_call = [op |-> "delete_session", session_id |-> Str("s1")]
    /\ call.op = "save"
    /\ call.key = "content_generation"
    /\ ncalls = 2
    /\ session_id = Str("s1")
    /\ ListSessions(Store) = {Str("s1")}
    /\ Len(files[session_id]["messages"].items) = 1
    /\ files[session_id]["workflow_state"] = Str("analyzing_brand")
NoSession == session_id = None

\* C38: on a store with no open session save raises, but append_message
\* and clear return: append_message adds the dumped message to the log of
\* the in-memory mapping and changes nothing else, clear changes nothing,
\* and neither writes a file or opens a session
C38_AppendAndClearWithoutSession ==
    /\ [][(NoSession /\ Calls({"save"})) => NoSessionError(exc')]_vars
    /\ [][(NoSession /\ Calls({"append_message"})) =>
            /\ exc' = None
            /\ files' = files
            /\ session_id' = None
            /\ AppendedTo(GetMessages(Store), call'.message)
            /\ DOMAIN memory' = DOMAIN memory \cup {"messages"}
            /\ \A k \in DOMAIN memory \ {"messages"} : memory'[k] = memory[k]]_vars
    /\ [][(NoSession /\ Calls({"clear"})) =>
            /\ exc' = None
            /\ files' = files
            /\ session_id' = None
            /\ memory' = memory]_vars

\* a fresh store: a message appended, then clear; the message is still in
\* the log and no file was written
C38_Witness ==
    /\ NoSession
    /\ prev_call.op = "append_message"
    /\ call.op = "clear"
    /\ exc = None
    /\ ncalls = 2
    /\ files = EmptyDict
    /\ DOMAIN memory = {"messages"}
    /\ GetMessages(Store) = List(<<SerializedForm(prev_call.message)>>)

(***************************************************************************)
(* C39: two execute_workflow calls on one SharedMemory                     *)
(***************************************************************************)
\* C39: once the second call has been started during a backoff wait of the
\* first call, the session the second call creates is another one than the
\* first call's, and the first session's file receives no further writes
C39_FirstSessionFileLeftAlone ==
    [][first_session # None =>
          /\ pc = "idle" => session_id' # first_session
          /\ files'[first_session] = files[first_session]]_vars
====
